---- MODULE Spec2Model ----
(***************************************************************************)
(* The Case Store of CCMS (src/database.py): ten SQLite tables, the        *)
(* operations that read and write them, and the start-up migration.        *)
(*                                                                         *)
(* A table is the set of its rows; a row is a record holding the columns   *)
(* the operations below read or write.  Every operation opens its own      *)
(* connection (get_connection), runs its statements in one implicit        *)
(* transaction and commits; a statement that raises leaves the function    *)
(* through `finally: conn.close()`, which rolls the transaction back.      *)
(* The variable `last` holds the outcome of the latest call: the function, *)
(* its arguments, "ok" or the constraint that raised, and the lastrowid;   *)
(* a specification whose properties speak of the tables alone starts it as *)
(* "unobserved" and it then stays so.  The variable `session_state` is the *)
(* st.session_state dictionary of one browser session of the case page     *)
(* (src/pages/cases.py): a function from the keys set to their values.     *)
(***************************************************************************)
EXTENDS Integers, FiniteSets, Sequences, TLC

VARIABLES cases, case_crime_types, case_tags, suspects, suspect_crime_history,
          suspect_case_links, case_links, timeline_events, projects,
          project_cases, columns, last, issued, session_state

tables == <<cases, case_crime_types, case_tags, suspects, suspect_crime_history,
            suspect_case_links, case_links, timeline_events, projects,
            project_cases, columns>>

vars == <<cases, case_crime_types, case_tags, suspects, suspect_crime_history,
          suspect_case_links, case_links, timeline_events, projects,
          project_cases, columns, last, issued, session_state>>

----------------------------------------------------------------------------
(* Bounds of the model *)

\* largest rowid handed out in cases
MaxCases == 2
\* largest rowid handed out in suspects
MaxSuspects == 1
\* largest rowid handed out in projects
MaxProjects == 2
\* largest rowid handed out in an association table
MaxRows == 2
\* longest list passed to set_case_crime_types / set_case_tags
MaxLen == 3
\* largest rowid handed out in case_crime_types / case_tags
MaxTypeRows == 4

CaseIds    == 1..MaxCases
SuspectIds == 1..MaxSuspects
ProjectIds == 1..MaxProjects

----------------------------------------------------------------------------
(* Values *)

\* SQL NULL / Python None in a TEXT or REAL column
NULL == "NULL"
\* project_id=None: the unscoped form of a query
None == 0
\* the sentinel of the legacy cases.crime_type column
MIGRATED == "__migrated__"

CRIME_TYPES      == {"Homicide", "Assault"}
CONNECTION_TYPES == {"DNA Evidence", "Known Associate"}
CASE_STATUSES    == {"Active", "Cold Case", "Solved"}
RETIRED_STATUSES == {"Open", "Linked", "Closed"}
CASE_TAGS        == {"Indoor", "Outdoor"}
Dates            == {1, 2}
Coords           == {NULL, "54.0"}
Addresses        == {NULL, "Main St"}
Notes            == {"same MO", "same area"}
ProjectNames     == {"Alpha", "Beta"}

\* `x or None` on a string argument: the empty string is stored as NULL
OrNone(s) == IF s = "" THEN NULL ELSE s

Max(S) == CHOOSE x \in S : \A y \in S : y <= x

\* PRAGMA foreign_keys = ON, issued on every connection
ForeignKeysOff == FALSE
foreign_keys == TRUE

\* The rowid SQLite gives a row inserted without an id into a table declared
\* `id INTEGER PRIMARY KEY` (no AUTOINCREMENT): one more than the largest
\* rowid now in the table, 1 in an empty table.
lastrowid(T) == IF T = {} THEN 1 ELSE Max({r.id : r \in T}) + 1

Ids(T) == {r.id : r \in T}

\* FOREIGN KEY (col) REFERENCES parent(id): satisfied when enforcement is off
\* or the parent row exists
References(id, parent) == (~foreign_keys) \/ id \in Ids(parent)

\* the outcome of a call
Outcome(op, args, status, id) == [op |-> op, args |-> args, status |-> status, id |-> id]

\* the tables whose add operation returns the new id
AddOps == {"add_case", "add_suspect", "add_project", "add_timeline_event",
           "add_suspect_crime_history", "link_cases", "link_suspect_to_case"}

\* the call ends: its outcome is recorded; no data operation alters the
\* columns of the cases table
Return(op, args, status, id) ==
    /\ last' = IF last.op = "unobserved" THEN last ELSE Outcome(op, args, status, id)
    /\ UNCHANGED <<columns, session_state>>

\* a call that raised: nothing is committed
Raise(op, args, status) ==
    /\ last' = IF last.op = "unobserved" THEN last ELSE Outcome(op, args, status, 0)
    /\ UNCHANGED <<tables, issued, session_state>>

\* bookkeeping of the ids returned so far by the op (largest one per op),
\* kept for the operations in the domain of `issued'
Returned(op, id) ==
    issued' = IF op \in DOMAIN issued
                THEN [issued EXCEPT ![op] = IF id > @ THEN id ELSE @]
                ELSE issued

----------------------------------------------------------------------------
(* Schema: the row constraints of init_db *)

\* case_links: CHECK(case_id_1 < case_id_2)
CaseLinksCheckLoose(r) == r.case_id_1 <= r.case_id_2
CaseLinksCheck(r) == r.case_id_1 < r.case_id_2

\* suspect_case_links: UNIQUE(suspect_id, case_id, connection_type)
SuspectCaseLinksUniquePair(r, T) ==
    ~ \E x \in T : x.suspect_id = r.suspect_id /\ x.case_id = r.case_id
SuspectCaseLinksUnique(r, T) ==
    ~ \E x \in T : /\ x.suspect_id = r.suspect_id
                   /\ x.case_id = r.case_id
                   /\ x.connection_type = r.connection_type

\* case_crime_types: UNIQUE(case_id, crime_type)
CaseCrimeTypesUnique(r, T) ==
    ~ \E x \in T : x.case_id = r.case_id /\ x.crime_type = r.crime_type

\* case_tags: UNIQUE(case_id, tag)
CaseTagsUniqueOff(r, T) == TRUE
CaseTagsUnique(r, T) ==
    ~ \E x \in T : x.case_id = r.case_id /\ x.tag = r.tag

\* project_cases: UNIQUE(project_id, case_id)
ProjectCasesUniqueOff(r, T) == TRUE
ProjectCasesUnique(r, T) ==
    ~ \E x \in T : x.project_id = r.project_id /\ x.case_id = r.case_id

\* projects: name TEXT NOT NULL UNIQUE
ProjectsUniqueOff(r, T) == TRUE
ProjectsUnique(r, T) == ~ \E x \in T : x.name = r.name /\ x.id # r.id

----------------------------------------------------------------------------
(* ON DELETE CASCADE: the rows of a child table that survive the deletion  *)
(* of parent row `id`                                                      *)

CascadeAll(T, col, id) ==
    IF \E r \in T : r[col] = id THEN {} ELSE T
CascadeOn(T, col, id) ==
    IF foreign_keys THEN {r \in T : r[col] # id} ELSE T

CascadeCaseLinksFirstOnly(T, id) == CascadeOn(T, "case_id_1", id)
CascadeCaseLinks(T, id) == CascadeOn(CascadeOn(T, "case_id_1", id), "case_id_2", id)

----------------------------------------------------------------------------
(* Cases *)

\* the attributes add_case takes (columns the operations here do not read
\* -- body_found_*, is_murder, victim_count, mo_description, victim_profile,
\* created_at -- are left out of the row)
CaseAttrs(titles, dates, statuses, addrs, coords) ==
    [title : titles, date_occurred : dates, status : statuses,
     crime_scene_address : addrs, crime_scene_lat : coords, crime_scene_lon : coords]

add_case(a) ==
    LET id == lastrowid(cases)
        row == [id |-> id, title |-> a.title, crime_type |-> MIGRATED,
                date_occurred |-> a.date_occurred, status |-> a.status,
                address |-> NULL, latitude |-> NULL, longitude |-> NULL,
                crime_scene_address |-> OrNone(a.crime_scene_address),
                crime_scene_lat |-> a.crime_scene_lat,
                crime_scene_lon |-> a.crime_scene_lon]
    IN /\ id <= MaxCases
       /\ cases' = cases \cup {row}
       /\ Return("add_case", <<a>>, "ok", id)
       /\ Returned("add_case", id)
       /\ UNCHANGED <<case_crime_types, case_tags, suspects, suspect_crime_history,
                      suspect_case_links, case_links, timeline_events, projects,
                      project_cases>>

\* (the WHERE clause left out: the first row of the table)
get_first_case(case_id) ==
    IF cases # {}
      THEN CHOOSE r \in cases : \A x \in cases : r.id <= x.id
      ELSE [id |-> None]
get_case(case_id) ==
    IF \E r \in cases : r.id = case_id
      THEN CHOOSE r \in cases : r.id = case_id
      ELSE [id |-> None]

delete_case(case_id) ==
    /\ cases' = {r \in cases : r.id # case_id}
    /\ case_crime_types'   = CascadeOn(case_crime_types, "case_id", case_id)
    /\ case_tags'          = CascadeOn(case_tags, "case_id", case_id)
    /\ suspect_case_links' = CascadeOn(suspect_case_links, "case_id", case_id)
    /\ case_links'         = CascadeCaseLinks(case_links, case_id)
    /\ timeline_events'    = CascadeOn(timeline_events, "case_id", case_id)
    /\ project_cases'      = CascadeOn(project_cases, "case_id", case_id)
    /\ Return("delete_case", <<case_id>>, "ok", 0)
    /\ UNCHANGED <<suspects, suspect_crime_history, projects, issued>>

\* UPDATE cases SET k = ? ... WHERE id = ?, `fields` a function from column
\* names to values; title, date_occurred, status and crime_type are NOT NULL
NotNullCols == {"title", "date_occurred", "status", "crime_type"}

ApplyOrClearScene(r, fields) ==
    [k \in DOMAIN r |-> IF k \in DOMAIN fields THEN fields[k]
                        ELSE IF k \in {"crime_scene_address", "crime_scene_lat",
                                       "crime_scene_lon"} THEN NULL
                        ELSE r[k]]
ApplyFields(r, fields) ==
    [k \in DOMAIN r |-> IF k \in DOMAIN fields THEN fields[k] ELSE r[k]]

update_case(case_id, fields) ==
    IF DOMAIN fields = {}
      THEN /\ Return("update_case", <<case_id, fields>>, "ok", 0)
           /\ UNCHANGED <<tables, issued>>
    ELSE IF /\ case_id \in Ids(cases)
            /\ \E k \in DOMAIN fields \cap NotNullCols : fields[k] = NULL
      THEN Raise("update_case", <<case_id, fields>>, "NOT NULL")
    ELSE /\ cases' = {IF r.id = case_id THEN ApplyFields(r, fields) ELSE r : r \in cases}
         /\ Return("update_case", <<case_id, fields>>, "ok", 0)
         /\ UNCHANGED <<case_crime_types, case_tags, suspects, suspect_crime_history,
                        suspect_case_links, case_links, timeline_events, projects,
                        project_cases, issued>>

----------------------------------------------------------------------------
(* Migration *)

\* the columns of the original cases table, and those migrate_db adds
\* (of the eight added columns, the three the operations here read)
LEGACY_COLS == {"id", "title", "crime_type", "date_occurred", "address",
                "latitude", "longitude", "status"}
NEW_COLS    == {"crime_scene_address", "crime_scene_lat", "crime_scene_lon"}

\* 1. ALTER TABLE cases ADD COLUMN ...: a column already present raises, and
\*    the exception is swallowed
AddColumns(cols) == cols \cup NEW_COLS

\* 3. UPDATE cases SET crime_scene_* = legacy location
\*    WHERE crime_scene_lat IS NULL AND latitude IS NOT NULL
CopyLocation(r) ==
    IF r.crime_scene_lat = NULL /\ r.latitude # NULL
      THEN [r EXCEPT !.crime_scene_address = r.address,
                     !.crime_scene_lat = r.latitude,
                     !.crime_scene_lon = r.longitude]
      ELSE r

\* 4. SELECT id, crime_type FROM cases WHERE crime_type != '__migrated__'
LegacyTypeFirstRow(C) ==
    {r \in C : r.crime_type # MIGRATED /\ \A x \in C : x.crime_type # MIGRATED => r.id <= x.id}
LegacyTypeRows(C) == {r \in C : r.crime_type # MIGRATED}

\*    for row in rows: INSERT OR IGNORE INTO case_crime_types (.., .., 0),
\*    rows taken in rowid order
RECURSIVE MigrateCrimeTypes(_, _)
MigrateCrimeTypes(T, rows) ==
    IF rows = {} THEN T
    ELSE LET c   == CHOOSE r \in rows : \A x \in rows : r.id <= x.id
             row == [id |-> lastrowid(T), case_id |-> c.id,
                     crime_type |-> c.crime_type, sort_order |-> 0]
         IN MigrateCrimeTypes(IF CaseCrimeTypesUnique(row, T) THEN T \cup {row} ELSE T,
                              rows \ {c})

\*    UPDATE cases SET crime_type = '__migrated__' WHERE crime_type != '__migrated__'
MarkMigratedTypo(r) ==
    IF r.crime_type # MIGRATED THEN [r EXCEPT !.crime_type = "migrated"] ELSE r
MarkMigrated(r) ==
    IF r.crime_type # MIGRATED THEN [r EXCEPT !.crime_type = MIGRATED] ELSE r

\* 5. UPDATE cases SET status = 'Active' WHERE status IN ('Open', 'Linked');
\*    UPDATE cases SET status = 'Solved' WHERE status = 'Closed'
NormalizeOpenOnly(r) ==
    [r EXCEPT !.status = IF r.status \in {"Open", "Linked"} THEN "Active" ELSE r.status]
NormalizeStatus(r) ==
    LET s1 == IF r.status \in {"Open", "Linked"} THEN "Active" ELSE r.status
        s2 == IF s1 = "Closed" THEN "Solved" ELSE s1
    IN [r EXCEPT !.status = s2]

\* the cases table and the case_crime_types table after one run
MigrateCases(C) == {NormalizeStatus(MarkMigrated(CopyLocation(r))) : r \in C}
MigrateTypes(C, T) == MigrateCrimeTypes(T, LegacyTypeRows(C))

migrate_db ==
    /\ \A r \in MigrateTypes(cases, case_crime_types) : r.id <= MaxTypeRows
    /\ columns' = AddColumns(columns)
    /\ cases' = MigrateCases(cases)
    /\ case_crime_types' = MigrateTypes(cases, case_crime_types)
    /\ last' = IF last.op = "unobserved" THEN last
                ELSE Outcome("migrate_db", <<>>, "ok", 0)
    /\ UNCHANGED <<case_tags, suspects, suspect_crime_history, suspect_case_links,
                   case_links, timeline_events, projects, project_cases, issued,
                   session_state>>

----------------------------------------------------------------------------
(* Orderings of a query result *)

\* ORDER BY: the sequences that list every row of S once, in an order that
\* agrees with InOrder; rows that tie may come in either order
Orderings(S, InOrder(_, _)) ==
    {f \in [1..Cardinality(S) -> S] :
        /\ \A i, j \in DOMAIN f : i # j => f[i] # f[j]
        /\ \A i, j \in DOMAIN f : i < j => InOrder(f[i], f[j])}

\* ORDER BY date_occurred DESC
ByDateDesc(r1, r2) == r1.date_occurred >= r2.date_occurred
JoinByDateDesc(j1, j2) == ByDateDesc(j1[1], j2[1])

\* FROM cases c JOIN project_cases pc ON pc.case_id = c.id WHERE pc.project_id = ?
JoinAnyProject(project_id) ==
    {j \in cases \X project_cases : j[2].case_id = j[1].id}
JoinProjectCases(project_id) ==
    {j \in cases \X project_cases :
        j[2].case_id = j[1].id /\ j[2].project_id = project_id}

\* the sequences of case rows get_all_cases may return
get_all_cases(project_id) ==
    IF project_id = None
      THEN Orderings(cases, ByDateDesc)
      ELSE {[i \in DOMAIN f |-> f[i][1]] :
               f \in Orderings(JoinProjectCases(project_id), JoinByDateDesc)}

----------------------------------------------------------------------------
(* Case crime types and tags: replace-all writes *)

\* DELETE FROM case_crime_types WHERE case_id = ?  (same statement for tags)
KeepAllRows(T, case_id) == T
DeleteForCase(T, case_id) == {r \in T : r.case_id # case_id}

\* for i, ct in enumerate(crime_types): INSERT OR IGNORE ... VALUES (case_id, ct, i)
RECURSIVE InsertCrimeTypes(_, _, _, _)
InsertCrimeTypes(T, case_id, crime_types, i) ==
    IF i > Len(crime_types) THEN T
    ELSE LET row == [id |-> lastrowid(T), case_id |-> case_id,
                     crime_type |-> crime_types[i], sort_order |-> i - 1]
         IN InsertCrimeTypes(IF CaseCrimeTypesUnique(row, T) THEN T \cup {row} ELSE T,
                             case_id, crime_types, i + 1)

set_case_crime_types(case_id, crime_types) ==
    LET T == InsertCrimeTypes(DeleteForCase(case_crime_types, case_id),
                              case_id, crime_types, 1)
        args == <<case_id, crime_types>>
    IN IF crime_types # <<>> /\ ~References(case_id, cases)
         THEN Raise("set_case_crime_types", args, "FOREIGN KEY")
       ELSE /\ \A r \in T : r.id <= MaxTypeRows
            /\ case_crime_types' = T
            /\ Return("set_case_crime_types", args, "ok", 0)
            /\ UNCHANGED <<cases, case_tags, suspects, suspect_crime_history,
                           suspect_case_links, case_links, timeline_events,
                           projects, project_cases, issued>>

\* SELECT crime_type ... WHERE case_id = ? ORDER BY sort_order ASC:
\* the set of sequences the query may return
BySortOrder(r1, r2) == r1.sort_order <= r2.sort_order

get_case_crime_types(case_id) ==
    {[i \in DOMAIN f |-> f[i].crime_type] :
        f \in Orderings({r \in case_crime_types : r.case_id = case_id}, BySortOrder)}

\* ... ORDER BY sort_order ASC LIMIT 1: the values the query may return
get_primary_crime_type(case_id) ==
    {IF t = <<>> THEN NULL ELSE t[1] : t \in get_case_crime_types(case_id)}

RECURSIVE InsertTags(_, _, _, _)
InsertTags(T, case_id, tags, i) ==
    IF i > Len(tags) THEN T
    ELSE LET row == [id |-> lastrowid(T), case_id |-> case_id, tag |-> tags[i]]
         IN InsertTags(IF CaseTagsUnique(row, T) THEN T \cup {row} ELSE T,
                       case_id, tags, i + 1)

set_case_tags(case_id, tags) ==
    LET T == InsertTags(DeleteForCase(case_tags, case_id), case_id, tags, 1)
        args == <<case_id, tags>>
    IN IF tags # <<>> /\ ~References(case_id, cases)
         THEN Raise("set_case_tags", args, "FOREIGN KEY")
       ELSE /\ \A r \in T : r.id <= MaxTypeRows
            /\ case_tags' = T
            /\ Return("set_case_tags", args, "ok", 0)
            /\ UNCHANGED <<cases, case_crime_types, suspects, suspect_crime_history,
                           suspect_case_links, case_links, timeline_events,
                           projects, project_cases, issued>>

\* SELECT tag ... WHERE case_id = ? ORDER BY id ASC
ById(r1, r2) == r1.id <= r2.id

get_case_tags(case_id) ==
    {[i \in DOMAIN f |-> f[i].tag] :
        f \in Orderings({r \in case_tags : r.case_id = case_id}, ById)}

----------------------------------------------------------------------------
(* Case links *)

link_cases(id_a, id_b, similarity_note) ==
    LET case_id_1 == IF id_a <= id_b THEN id_a ELSE id_b
        case_id_2 == IF id_a <= id_b THEN id_b ELSE id_a
        id  == lastrowid(case_links)
        row == [id |-> id, case_id_1 |-> case_id_1, case_id_2 |-> case_id_2,
                similarity_note |-> similarity_note]
        args == <<id_a, id_b, similarity_note>>
    IN IF ~CaseLinksCheck(row)
         THEN Raise("link_cases", args, "CHECK")
       ELSE IF ~(References(case_id_1, cases) /\ References(case_id_2, cases))
         THEN Raise("link_cases", args, "FOREIGN KEY")
       ELSE /\ id <= MaxRows
            /\ case_links' = case_links \cup {row}
            /\ Return("link_cases", args, "ok", id)
            /\ Returned("link_cases", id)
            /\ UNCHANGED <<cases, case_crime_types, case_tags, suspects,
                           suspect_crime_history, suspect_case_links,
                           timeline_events, projects, project_cases>>

delete_case_link(link_id) ==
    /\ case_links' = {r \in case_links : r.id # link_id}
    /\ Return("delete_case_link", <<link_id>>, "ok", 0)
    /\ UNCHANGED <<cases, case_crime_types, case_tags, suspects,
                   suspect_crime_history, suspect_case_links,
                   timeline_events, projects, project_cases, issued>>

----------------------------------------------------------------------------
(* Suspects, their criminal history, and suspect-case links *)

add_suspect(name) ==
    LET id == lastrowid(suspects)
    IN /\ id <= MaxSuspects
       /\ suspects' = suspects \cup {[id |-> id, name |-> name]}
       /\ Return("add_suspect", <<name>>, "ok", id)
       /\ Returned("add_suspect", id)
       /\ UNCHANGED <<cases, case_crime_types, case_tags, suspect_crime_history,
                      suspect_case_links, case_links, timeline_events, projects,
                      project_cases>>

delete_suspect(suspect_id) ==
    /\ suspects' = {r \in suspects : r.id # suspect_id}
    /\ suspect_crime_history' = CascadeOn(suspect_crime_history, "suspect_id", suspect_id)
    /\ suspect_case_links'    = CascadeOn(suspect_case_links, "suspect_id", suspect_id)
    /\ Return("delete_suspect", <<suspect_id>>, "ok", 0)
    /\ UNCHANGED <<cases, case_crime_types, case_tags, case_links, timeline_events,
                   projects, project_cases, issued>>

add_suspect_crime_history(suspect_id, crime_type, date_of_crime, conviction_status) ==
    LET id  == lastrowid(suspect_crime_history)
        row == [id |-> id, suspect_id |-> suspect_id, crime_type |-> crime_type,
                date_of_crime |-> date_of_crime,
                conviction_status |-> conviction_status]
        args == <<suspect_id, crime_type, date_of_crime, conviction_status>>
    IN IF ~References(suspect_id, suspects)
         THEN Raise("add_suspect_crime_history", args, "FOREIGN KEY")
       ELSE /\ id <= MaxRows
            /\ suspect_crime_history' = suspect_crime_history \cup {row}
            /\ Return("add_suspect_crime_history", args, "ok", id)
            /\ Returned("add_suspect_crime_history", id)
            /\ UNCHANGED <<cases, case_crime_types, case_tags, suspects,
                           suspect_case_links, case_links, timeline_events,
                           projects, project_cases>>

delete_suspect_crime_history_entry(entry_id) ==
    /\ suspect_crime_history' = {r \in suspect_crime_history : r.id # entry_id}
    /\ Return("delete_suspect_crime_history_entry", <<entry_id>>, "ok", 0)
    /\ UNCHANGED <<cases, case_crime_types, case_tags, suspects, suspect_case_links,
                   case_links, timeline_events, projects, project_cases, issued>>

link_suspect_to_case(suspect_id, case_id, connection_type) ==
    LET id  == lastrowid(suspect_case_links)
        row == [id |-> id, suspect_id |-> suspect_id, case_id |-> case_id,
                connection_type |-> connection_type]
        args == <<suspect_id, case_id, connection_type>>
    IN IF ~SuspectCaseLinksUnique(row, suspect_case_links)
         THEN Raise("link_suspect_to_case", args, "UNIQUE")
       ELSE IF ~(References(suspect_id, suspects) /\ References(case_id, cases))
         THEN Raise("link_suspect_to_case", args, "FOREIGN KEY")
       ELSE /\ id <= MaxRows
            /\ suspect_case_links' = suspect_case_links \cup {row}
            /\ Return("link_suspect_to_case", args, "ok", id)
            /\ Returned("link_suspect_to_case", id)
            /\ UNCHANGED <<cases, case_crime_types, case_tags, suspects,
                           suspect_crime_history, case_links, timeline_events,
                           projects, project_cases>>

delete_suspect_case_link(link_id) ==
    /\ suspect_case_links' = {r \in suspect_case_links : r.id # link_id}
    /\ Return("delete_suspect_case_link", <<link_id>>, "ok", 0)
    /\ UNCHANGED <<cases, case_crime_types, case_tags, suspects,
                   suspect_crime_history, case_links, timeline_events, projects,
                   project_cases, issued>>

----------------------------------------------------------------------------
(* Timeline events *)

add_timeline_event(case_id, event_timestamp, title) ==
    LET id  == lastrowid(timeline_events)
        row == [id |-> id, case_id |-> case_id,
                event_timestamp |-> event_timestamp, title |-> title]
        args == <<case_id, event_timestamp, title>>
    IN IF ~References(case_id, cases)
         THEN Raise("add_timeline_event", args, "FOREIGN KEY")
       ELSE /\ id <= MaxRows
            /\ timeline_events' = timeline_events \cup {row}
            /\ Return("add_timeline_event", args, "ok", id)
            /\ Returned("add_timeline_event", id)
            /\ UNCHANGED <<cases, case_crime_types, case_tags, suspects,
                           suspect_crime_history, suspect_case_links, case_links,
                           projects, project_cases>>

delete_timeline_event(event_id) ==
    /\ timeline_events' = {r \in timeline_events : r.id # event_id}
    /\ Return("delete_timeline_event", <<event_id>>, "ok", 0)
    /\ UNCHANGED <<cases, case_crime_types, case_tags, suspects,
                   suspect_crime_history, suspect_case_links, case_links,
                   projects, project_cases, issued>>

----------------------------------------------------------------------------
(* Projects and membership *)

add_project(name) ==
    LET id  == lastrowid(projects)
        row == [id |-> id, name |-> name]
    IN IF ~ProjectsUnique(row, projects)
         THEN Raise("add_project", <<name>>, "UNIQUE")
       ELSE /\ id <= MaxProjects
            /\ projects' = projects \cup {row}
            /\ Return("add_project", <<name>>, "ok", id)
            /\ Returned("add_project", id)
            /\ UNCHANGED <<cases, case_crime_types, case_tags, suspects,
                           suspect_crime_history, suspect_case_links, case_links,
                           timeline_events, project_cases>>

delete_project(project_id) ==
    /\ projects' = {r \in projects : r.id # project_id}
    /\ project_cases' = CascadeOn(project_cases, "project_id", project_id)
    /\ Return("delete_project", <<project_id>>, "ok", 0)
    /\ UNCHANGED <<cases, case_crime_types, case_tags, suspects,
                   suspect_crime_history, suspect_case_links, case_links,
                   timeline_events, issued>>

\* INSERT OR IGNORE: a row that would break UNIQUE is skipped without an
\* error; a foreign-key violation is not covered by OR IGNORE and raises
assign_case_to_project(project_id, case_id) ==
    LET id  == lastrowid(project_cases)
        row == [id |-> id, project_id |-> project_id, case_id |-> case_id]
        args == <<project_id, case_id>>
    IN IF ~ProjectCasesUnique(row, project_cases)
         THEN /\ Return("assign_case_to_project", args, "ok", 0)
              /\ UNCHANGED <<tables, issued>>
       ELSE IF ~(References(project_id, projects) /\ References(case_id, cases))
         THEN Raise("assign_case_to_project", args, "FOREIGN KEY")
       ELSE /\ id <= MaxRows
            /\ project_cases' = project_cases \cup {row}
            /\ Return("assign_case_to_project", args, "ok", 0)
            /\ UNCHANGED <<cases, case_crime_types, case_tags, suspects,
                           suspect_crime_history, suspect_case_links, case_links,
                           timeline_events, projects, issued>>

unassign_case_from_project(project_id, case_id) ==
    /\ project_cases' = {r \in project_cases :
                            ~(r.project_id = project_id /\ r.case_id = case_id)}
    /\ Return("unassign_case_from_project", <<project_id, case_id>>, "ok", 0)
    /\ UNCHANGED <<cases, case_crime_types, case_tags, suspects,
                   suspect_crime_history, suspect_case_links, case_links,
                   timeline_events, projects, issued>>

----------------------------------------------------------------------------
(* init_db on a new file: every table empty *)

Init ==
    /\ cases = {}
    /\ case_crime_types = {}
    /\ case_tags = {}
    /\ suspects = {}
    /\ suspect_crime_history = {}
    /\ suspect_case_links = {}
    /\ case_links = {}
    /\ timeline_events = {}
    /\ projects = {}
    /\ project_cases = {}
    /\ columns = LEGACY_COLS \cup NEW_COLS
    /\ last = Outcome("init_db", <<>>, "ok", 0)
    /\ issued = <<>>
    /\ session_state = <<>>

PlainCase == CaseAttrs({"Doe File"}, {1}, {"Active"}, {""}, {NULL})

DatedCase == CaseAttrs({"Doe File"}, Dates, {"Active"}, {""}, {NULL})

NextLinks ==
    \/ \E a \in DatedCase : add_case(a)
    \/ \E c \in CaseIds : delete_case(c)
    \/ \E a, b \in CaseIds, n \in Notes : link_cases(a, b, n)
    \/ \E l \in 1..MaxRows : delete_case_link(l)

SpecLinks == Init /\ [][NextLinks]_vars

NextSuspects ==
    \/ \E a \in PlainCase : add_case(a)
    \/ \E c \in CaseIds : delete_case(c)
    \/ \E n \in {"J. Smith"} : add_suspect(n)
    \/ \E s \in SuspectIds : delete_suspect(s)
    \/ \E s \in SuspectIds, c \in CaseIds, t \in CONNECTION_TYPES :
          link_suspect_to_case(s, c, t)
    \/ \E l \in 1..MaxRows : delete_suspect_case_link(l)

SpecSuspects == Init /\ [][NextSuspects]_vars

Lists(S) == UNION {[1..n -> S] : n \in 0..MaxLen}

NextTypes ==
    \/ \E a \in PlainCase : add_case(a)
    \/ \E c \in CaseIds : delete_case(c)
    \/ \E c \in CaseIds, L \in Lists(CRIME_TYPES) : set_case_crime_types(c, L)

SpecTypes == Init /\ [][NextTypes]_vars

NextProjects ==
    \/ \E a \in DatedCase : add_case(a)
    \/ \E c \in CaseIds : delete_case(c)
    \/ \E n \in ProjectNames : add_project(n)
    \/ \E p \in ProjectIds : delete_project(p)
    \/ \E p \in ProjectIds, c \in CaseIds : assign_case_to_project(p, c)
    \/ \E p \in ProjectIds, c \in CaseIds : unassign_case_from_project(p, c)

SpecProjects == Init /\ [][NextProjects]_vars

----------------------------------------------------------------------------
(* The store over its history: a file written by the original schema, with *)
(* legacy rows, or a new file; app.py runs init_db and migrate_db before    *)
(* any page calls a data operation                                          *)

\* largest number of rows in a legacy cases table
MaxLegacy == 2

LegacyRow(id) ==
    [id : {id}, title : {"Doe File"}, crime_type : {"Homicide"},
     date_occurred : {1}, status : {"Open", "Closed", "Cold Case"},
     address : Addresses, latitude : Coords, longitude : Coords,
     crime_scene_address : {NULL}, crime_scene_lat : {NULL},
     crime_scene_lon : {NULL}]

\* the geocoder of the original form wrote latitude and longitude together
LegacyRows(id) == {r \in LegacyRow(id) : (r.latitude = NULL) <=> (r.longitude = NULL)}

LegacyTables ==
    UNION {{{f[i] : i \in 1..n} : f \in {g \in [1..n -> UNION {LegacyRows(i) : i \in 1..n}] :
                                            \A i \in 1..n : g[i].id = i}} :
           n \in 0..MaxLegacy}

InitMig ==
    /\ cases \in LegacyTables
    /\ columns = IF cases = {} THEN LEGACY_COLS \cup NEW_COLS ELSE LEGACY_COLS
    /\ case_crime_types = {}
    /\ case_tags = {}
    /\ suspects = {}
    /\ suspect_crime_history = {}
    /\ suspect_case_links = {}
    /\ case_links = {}
    /\ timeline_events = {}
    /\ projects = {}
    /\ project_cases = {}
    /\ last = [op |-> "unobserved"]
    /\ issued = <<>>
    /\ session_state = <<>>

Migrated == NEW_COLS \subseteq columns

SceneCase ==
    {a \in CaseAttrs({"Doe File"}, {1}, {"Active"}, {""}, Coords) :
        (a.crime_scene_lat = NULL) <=> (a.crime_scene_lon = NULL)}

NextMig ==
    \/ migrate_db
    \/ Migrated /\ lastrowid(cases) <= MaxLegacy /\ \E a \in SceneCase : add_case(a)
    \/ Migrated /\ \E c \in Ids(cases), L \in {<<>>, <<"Assault">>, <<"Assault", "Homicide">>} :
                      set_case_crime_types(c, L)
    \/ Migrated /\ \E c \in Ids(cases) : delete_case(c)

SpecMig == InitMig /\ [][NextMig]_vars

----------------------------------------------------------------------------
(* The whole store: every mutating operation *)

\* largest number of association rows the store holds at once
MaxAssoc == 2

AssocRows ==
    Cardinality(case_crime_types) + Cardinality(case_tags)
      + Cardinality(suspect_crime_history) + Cardinality(suspect_case_links)
      + Cardinality(case_links) + Cardinality(timeline_events)
      + Cardinality(project_cases)

Room == AssocRows < MaxAssoc

Next ==
    \/ \E a \in PlainCase : add_case(a)
    \/ \E c \in CaseIds : delete_case(c)
    \/ Room /\ \E c \in CaseIds, L \in {<<"Homicide">>} : set_case_crime_types(c, L)
    \/ Room /\ \E c \in CaseIds, L \in {<<"Indoor">>} : set_case_tags(c, L)
    \/ \E n \in {"J. Smith"} : add_suspect(n)
    \/ \E s \in SuspectIds : delete_suspect(s)
    \/ Room /\ \E s \in SuspectIds : add_suspect_crime_history(s, "Assault", NULL, "Suspected")
    \/ Room /\ \E s \in SuspectIds, c \in CaseIds : link_suspect_to_case(s, c, "DNA Evidence")
    \/ Room /\ \E a, b \in CaseIds : link_cases(a, b, "same MO")
    \/ Room /\ \E c \in CaseIds : add_timeline_event(c, 1, "Sighting")
    \/ \E n \in {"Alpha"} : add_project(n)
    \/ \E p \in ProjectIds : delete_project(p)
    \/ Room /\ \E p \in ProjectIds, c \in CaseIds : assign_case_to_project(p, c)
    \/ \E p \in ProjectIds, c \in CaseIds : unassign_case_from_project(p, c)
    \/ \E l \in 1..MaxRows : delete_case_link(l)
    \/ \E l \in 1..MaxRows : delete_suspect_case_link(l)
    \/ \E l \in 1..MaxRows : delete_timeline_event(l)
    \/ \E l \in 1..MaxRows : delete_suspect_crime_history_entry(l)

InitStore ==
    /\ cases = {}
    /\ case_crime_types = {}
    /\ case_tags = {}
    /\ suspects = {}
    /\ suspect_crime_history = {}
    /\ suspect_case_links = {}
    /\ case_links = {}
    /\ timeline_events = {}
    /\ projects = {}
    /\ project_cases = {}
    /\ columns = LEGACY_COLS \cup NEW_COLS
    /\ last = [op |-> "unobserved"]
    /\ issued = <<>>
    /\ session_state = <<>>

Spec == InitStore /\ [][Next]_vars

----------------------------------------------------------------------------
(* The id-returning operations, with the returned ids recorded *)

InitIds ==
    /\ cases = {}
    /\ case_crime_types = {}
    /\ case_tags = {}
    /\ suspects = {}
    /\ suspect_crime_history = {}
    /\ suspect_case_links = {}
    /\ case_links = {}
    /\ timeline_events = {}
    /\ projects = {}
    /\ project_cases = {}
    /\ columns = LEGACY_COLS \cup NEW_COLS
    /\ last = Outcome("init_db", <<>>, "ok", 0)
    /\ issued = [op \in AddOps |-> 0]
    /\ session_state = <<>>

NextIds ==
    \/ \E a \in PlainCase : add_case(a)
    \/ \E c \in CaseIds : delete_case(c)
    \/ \E n \in {"J. Smith"} : add_suspect(n)
    \/ \E s \in SuspectIds : delete_suspect(s)
    \/ \E n \in {"Alpha"} : add_project(n)
    \/ \E p \in ProjectIds : delete_project(p)
    \/ Room /\ \E s \in SuspectIds : add_suspect_crime_history(s, "Assault", NULL, "Suspected")
    \/ Room /\ \E s \in SuspectIds, c \in CaseIds : link_suspect_to_case(s, c, "DNA Evidence")
    \/ Room /\ \E a, b \in CaseIds : link_cases(a, b, "same MO")
    \/ Room /\ \E c \in CaseIds : add_timeline_event(c, 1, "Sighting")
    \/ \E l \in 1..MaxRows : delete_case_link(l)
    \/ \E l \in 1..MaxRows : delete_suspect_case_link(l)
    \/ \E l \in 1..MaxRows : delete_timeline_event(l)
    \/ \E l \in 1..MaxRows : delete_suspect_crime_history_entry(l)

SpecIds == InitIds /\ [][NextIds]_vars

----------------------------------------------------------------------------
(* Properties *)

\* C1: no association row references a case, suspect or project that does
\* not exist; in particular, once delete_case(c) has removed case c, no
\* crime-type association, tag, suspect-case link, case-case link (c as either
\* endpoint), timeline event or project membership references c.
NoOrphanRows ==
    /\ \A r \in case_crime_types : r.case_id \in Ids(cases)
    /\ \A r \in case_tags : r.case_id \in Ids(cases)
    /\ \A r \in suspect_crime_history : r.suspect_id \in Ids(suspects)
    /\ \A r \in suspect_case_links :
          r.suspect_id \in Ids(suspects) /\ r.case_id \in Ids(cases)
    /\ \A r \in case_links : r.case_id_1 \in Ids(cases) /\ r.case_id_2 \in Ids(cases)
    /\ \A r \in timeline_events : r.case_id \in Ids(cases)
    /\ \A r \in project_cases :
          r.project_id \in Ids(projects) /\ r.case_id \in Ids(cases)

\* Case 1 has been deleted together with its crime-type row: row 2 of
\* case_crime_types was inserted for case 2 while row 1 (of case 1) existed,
\* a replace-all write of a non-empty list keeps a row for its case, so only
\* delete_case(1) can have removed row 1.
CaseDeletedWithRows ==
    /\ Ids(cases) = {2}
    /\ \E r \in case_crime_types : r.id = 2 /\ r.case_id = 2
    /\ ~ \E r \in case_crime_types : r.id = 1

\* C2 (as claimed): the store never holds two case-link rows for the same
\* unordered pair of cases, because a second link_cases on a linked pair fails.
OneLinkPerPair ==
    \A r1, r2 \in case_links :
        (r1.case_id_1 = r2.case_id_1 /\ r1.case_id_2 = r2.case_id_2) => r1.id = r2.id

\* C3: link_cases(a, a, note) raises for every id a, existing or not, and
\* leaves the case-link rows as they were.
SelfLinkRejected ==
    [][(last'.op = "link_cases" /\ last'.args[1] = last'.args[2])
          => (last'.status = "CHECK" /\ case_links' = case_links)]_vars

\* a self-link of an existing case was attempted while a link existed
SelfLinkAttempted ==
    /\ last.op = "link_cases"
    /\ last.args[1] = last.args[2]
    /\ last.args[1] \in Ids(cases)
    /\ last.status = "CHECK"
    /\ case_links # {}

\* C4: every case-link row has its first case id strictly below its second,
\* whatever the order of the arguments of link_cases.
CanonicalOrder == \A r \in case_links : r.case_id_1 < r.case_id_2

\* link_cases(2, 1, note) has succeeded: the larger id was passed first
LinkedLargerFirst ==
    /\ last.op = "link_cases"
    /\ last.status = "ok"
    /\ last.args[1] > last.args[2]
    /\ \E r \in case_links :
          r.id = last.id /\ r.case_id_1 = last.args[2] /\ r.case_id_2 = last.args[1]

\* C5 (as claimed): the id an add operation returns is larger than every id
\* an earlier add of the same kind returned, deleted rows included.
IdsStrictlyIncrease ==
    [][(last'.op \in AddOps /\ last'.status = "ok" /\ last'.op \in DOMAIN issued)
          => last'.id > issued[last'.op]]_vars

\* C6: after set_case_crime_types(c, L) on an existing case c,
\* get_case_crime_types(c) is L with repeated entries dropped (first
\* occurrence kept), get_primary_crime_type(c) is the first element of L or
\* absent for the empty list, and no (case, crime type) pair has two rows.
Range(q) == {q[i] : i \in DOMAIN q}

RECURSIVE FirstOccurrences(_)
FirstOccurrences(L) ==
    IF L = <<>> THEN <<>>
    ELSE LET d == FirstOccurrences(SubSeq(L, 1, Len(L) - 1))
             x == L[Len(L)]
         IN IF x \in Range(d) THEN d ELSE Append(d, x)

CrimeTypesReplaced ==
    /\ \A r1, r2 \in case_crime_types :
          (r1.case_id = r2.case_id /\ r1.crime_type = r2.crime_type) => r1.id = r2.id
    /\ (last.op = "set_case_crime_types" /\ last.status = "ok"
          /\ last.args[1] \in Ids(cases))
         => /\ get_case_crime_types(last.args[1]) = {FirstOccurrences(last.args[2])}
            /\ get_primary_crime_type(last.args[1]) =
                  {IF last.args[2] = <<>> THEN NULL ELSE last.args[2][1]}

\* a list with a repeated entry has been written over rows written earlier:
\* the rows of the case carry rowids above the length of the list
RepeatedTypeWritten ==
    /\ last.op = "set_case_crime_types"
    /\ last.status = "ok"
    /\ last.args[2] = <<"Assault", "Assault", "Homicide">>
    /\ {r.sort_order : r \in {x \in case_crime_types : x.case_id = last.args[1]}} = {0, 2}
    /\ \E r \in case_crime_types : r.case_id = last.args[1] /\ r.id > 3

\* C7 (as claimed): link_suspect_to_case(s, c, t) raises UNIQUE, leaving the
\* links unchanged, exactly when a row (s, c, t) exists; when t is not yet
\* used for the pair (s, c) it succeeds and adds one row; no two rows carry
\* the same (suspect, case, connection type).
TripleExists(T, s, c, t) ==
    \E r \in T : r.suspect_id = s /\ r.case_id = c /\ r.connection_type = t

NoDuplicateTriple ==
    \A r1, r2 \in suspect_case_links :
        (/\ r1.suspect_id = r2.suspect_id
         /\ r1.case_id = r2.case_id
         /\ r1.connection_type = r2.connection_type) => r1.id = r2.id

LinkOutcome(s, c, t) ==
    /\ (last'.status = "UNIQUE") <=> TripleExists(suspect_case_links, s, c, t)
    /\ TripleExists(suspect_case_links, s, c, t)
          => suspect_case_links' = suspect_case_links
    /\ ~TripleExists(suspect_case_links, s, c, t)
          => /\ last'.status = "ok"
             /\ Cardinality(suspect_case_links') = Cardinality(suspect_case_links) + 1
             /\ suspect_case_links \subseteq suspect_case_links'
             /\ TripleExists(suspect_case_links', s, c, t)

SuspectLinkUniqueness ==
    [][/\ NoDuplicateTriple'
       /\ last'.op = "link_suspect_to_case"
             => LinkOutcome(last'.args[1], last'.args[2], last'.args[3])]_vars

\* C7 (amended): the same, for an existing suspect s and an existing case c;
\* a call naming a missing suspect or case raises and changes nothing.
SuspectLinkUniquenessOfExisting ==
    [][/\ NoDuplicateTriple'
       /\ last'.op = "link_suspect_to_case"
             => IF last'.args[1] \in Ids(suspects) /\ last'.args[2] \in Ids(cases)
                  THEN LinkOutcome(last'.args[1], last'.args[2], last'.args[3])
                  ELSE /\ last'.status # "ok"
                       /\ suspect_case_links' = suspect_case_links]_vars

\* the identical call was repeated and raised UNIQUE while the pair carries
\* two links of different connection types
TwoLinksOnePair ==
    /\ last.op = "link_suspect_to_case"
    /\ last.status = "UNIQUE"
    /\ \E r1, r2 \in suspect_case_links :
          /\ r1.suspect_id = last.args[1] /\ r2.suspect_id = last.args[1]
          /\ r1.case_id = last.args[2] /\ r2.case_id = last.args[2]
          /\ r1.connection_type = "DNA Evidence"
          /\ r2.connection_type = "Known Associate"

\* C8: no (project, case) pair has two membership rows, and after
\* assign_case_to_project(p, c) on an existing project and an existing case
\* the call has raised nothing and the pair has exactly one row.
Members(p, c) == {r \in project_cases : r.project_id = p /\ r.case_id = c}

AssignIdempotent ==
    /\ \A p \in ProjectIds, c \in CaseIds : Cardinality(Members(p, c)) <= 1
    /\ (last.op = "assign_case_to_project"
          /\ last.args[1] \in Ids(projects) /\ last.args[2] \in Ids(cases))
         => /\ last.status = "ok"
            /\ Cardinality(Members(last.args[1], last.args[2])) = 1

\* the assignment was repeated: the row of the pair is older than another
\* membership row, which was there before the latest call
AssignedAgain ==
    /\ last.op = "assign_case_to_project"
    /\ last.status = "ok"
    /\ \E r \in Members(last.args[1], last.args[2]) :
          \E x \in project_cases : x.id > r.id

\* C9: from every store state, legacy or current, a second migration run
\* changes nothing the first run produced: the same columns, the same rows
\* in cases and in case_crime_types (no other table is written).
MigrateTwiceIsMigrateOnce ==
    LET cols1  == AddColumns(columns)
        cases1 == MigrateCases(cases)
        types1 == MigrateTypes(cases, case_crime_types)
    IN /\ AddColumns(cols1) = cols1
       /\ MigrateCases(cases1) = cases1
       /\ MigrateTypes(cases1, types1) = types1

\* a migrated legacy store: the columns were added and a row written by the
\* original schema (it has a legacy location) had its location copied, its
\* crime type moved to case_crime_types and its status 'Closed' renamed
LegacyRowMigrated ==
    /\ Migrated
    /\ \E r \in cases :
          /\ r.latitude # NULL
          /\ r.crime_scene_lat = r.latitude
          /\ r.crime_type = MIGRATED
          /\ r.status = "Solved"
          /\ \E x \in case_crime_types :
                x.case_id = r.id /\ x.crime_type = "Homicide" /\ x.sort_order = 0
    /\ Cardinality(cases) = 2

\* C10: every sequence get_all_cases() may return lists each existing case
\* exactly once; every sequence get_all_cases(p) may return lists exactly the
\* cases with a membership in p, each once.
Occurrences(q, x) == Cardinality({i \in DOMAIN q : q[i] = x})

ListsEachOnce(q, S) ==
    /\ \A i \in DOMAIN q : q[i] \in S
    /\ \A x \in S : Occurrences(q, x) = 1

ListCasesExact ==
    /\ get_all_cases(None) # {}
    /\ \A q \in get_all_cases(None) : ListsEachOnce(q, cases)
    /\ \A p \in ProjectIds :
          /\ get_all_cases(p) # {}
          /\ \A q \in get_all_cases(p) :
                ListsEachOnce(q, {c \in cases : Members(p, c.id) # {}})

\* a case is a member of two projects and another case of only one of them
CaseInTwoProjects ==
    \E c1, c2 \in cases, p1, p2 \in Ids(projects) :
        /\ c1 # c2 /\ p1 # p2
        /\ Members(p1, c1.id) # {} /\ Members(p2, c1.id) # {}
        /\ Members(p1, c2.id) = {}

\* C11: every sequence get_all_cases may return is ordered by date_occurred
\* descending, and one store state yields one sequence only: cases of equal
\* date come in an order the state fixes.
ListCasesOneOrder ==
    /\ \A q \in get_all_cases(None) :
          \A i, j \in DOMAIN q : i < j => q[i].date_occurred >= q[j].date_occurred
    /\ Cardinality(get_all_cases(None)) = 1
    /\ \A p \in ProjectIds : Cardinality(get_all_cases(p)) = 1

----------------------------------------------------------------------------
(* The map queries *)

\* WHERE c.crime_scene_lat IS NOT NULL AND c.crime_scene_lon IS NOT NULL
HasLatitude(c) == c.crime_scene_lat # NULL
HasCoordinates(c) == c.crime_scene_lat # NULL /\ c.crime_scene_lon # NULL

\* FROM cases c [JOIN project_cases pc ON pc.case_id = c.id WHERE pc.project_id = ?]:
\* the case row with the rowid of the membership row it was joined to
\* (None in the unscoped query)
MapJoin(project_id) ==
    IF project_id = None
      THEN {<<c, None>> : c \in cases}
      ELSE {<<j[1], j[2].id>> : j \in JoinProjectCases(project_id)}

\* LEFT JOIN case_crime_types cct ON cct.case_id = c.id AND cct.sort_order = 0:
\* the crime types joined to case row c, NULL when no row matches
PrimaryOf(c) ==
    LET m == {x \in case_crime_types : x.case_id = c.id /\ x.sort_order = 0}
    IN IF m = {} THEN {NULL} ELSE {x.crime_type : x \in m}

CoordinateRows(project_id) ==
    UNION {{<<j[1], j[2], t>> : t \in PrimaryOf(j[1])} :
              j \in {k \in MapJoin(project_id) : HasCoordinates(k[1])}}

\* the sequences of rows get_cases_with_coordinates may return
get_cases_with_coordinates(project_id) ==
    {[i \in DOMAIN f |-> [case |-> f[i][1], primary_crime_type |-> f[i][3]]] :
        f \in Orderings(CoordinateRows(project_id), JoinByDateDesc)}

\* cases, their crime-scene coordinates, and one project
CoordCase == CaseAttrs({"Doe File"}, {1}, {"Active"}, {""}, Coords)

CoordFields == UNION {[D -> Coords] : D \in SUBSET {"crime_scene_lat", "crime_scene_lon"}}

NextCoords ==
    \/ \E a \in CoordCase : add_case(a)
    \/ \E c \in CaseIds : delete_case(c)
    \/ \E c \in CaseIds, f \in CoordFields : update_case(c, f)
    \/ \E n \in {"Alpha"} : add_project(n)
    \/ \E p \in ProjectIds, c \in CaseIds : assign_case_to_project(p, c)
    \/ \E p \in ProjectIds, c \in CaseIds : unassign_case_from_project(p, c)

SpecCoords == Init /\ [][NextCoords]_vars

\* C12: get_cases_with_coordinates(p?) lists exactly the cases whose
\* crime_scene_lat and crime_scene_lon are both non-null (and that are
\* members of p when p is given): a case added without coordinates, or with
\* one coordinate only, is not listed, and it is listed once update_case has
\* set both.
Scopes == {None} \cup ProjectIds

InScope(p, case_id) == p = None \/ Members(p, case_id) # {}

CasesListed(q) == {q[i].case : i \in DOMAIN q}

CoordinateCasesExact ==
    \A p \in Scopes :
        /\ get_cases_with_coordinates(p) # {}
        /\ \A q \in get_cases_with_coordinates(p) :
              CasesListed(q) = {c \in cases : /\ c.crime_scene_lat # NULL
                                              /\ c.crime_scene_lon # NULL
                                              /\ InScope(p, c.id)}

\* update_case has set the one coordinate that was missing; the case is a
\* member of the project and the other case has one coordinate only
SecondCoordinateSet ==
    /\ last.op = "update_case"
    /\ last.status = "ok"
    /\ DOMAIN last.args[2] = {"crime_scene_lon"}
    /\ \E c, d \in cases, p \in Ids(projects) :
          /\ c.id = last.args[1]
          /\ HasCoordinates(c)
          /\ Members(p, c.id) # {}
          /\ d.crime_scene_lat # NULL /\ d.crime_scene_lon = NULL
          /\ Members(p, d.id) # {}

----------------------------------------------------------------------------
(* The link queries *)

\* EXISTS (SELECT 1 FROM project_cases WHERE project_id = ? AND case_id = ?)
HasMembership(project_id, case_id) ==
    \E r \in project_cases : r.project_id = project_id /\ r.case_id = case_id

\* ... AND EXISTS (.. case_id = cl.case_id_1) AND EXISTS (.. case_id = cl.case_id_2)
LinkTouchesProject(cl, project_id) ==
    HasMembership(project_id, cl.case_id_1) \/ HasMembership(project_id, cl.case_id_2)
LinkInProject(cl, project_id) ==
    HasMembership(project_id, cl.case_id_1) /\ HasMembership(project_id, cl.case_id_2)

\* FROM case_links cl JOIN cases c1 ON cl.case_id_1 = c1.id
\*                    JOIN cases c2 ON cl.case_id_2 = c2.id
JoinEndpoints ==
    {j \in case_links \X cases \X cases :
        j[1].case_id_1 = j[2].id /\ j[1].case_id_2 = j[3].id}

\* ORDER BY cl.created_at DESC: created_at (datetime('now'), to the second)
\* is not kept in the rows here, so every order of the rows is admitted
AnyOrder(j1, j2) == TRUE

\* SELECT cl.*, c1.title AS case1_title, c2.title AS case2_title
LinkWithTitles(j) ==
    [id |-> j[1].id, case_id_1 |-> j[1].case_id_1, case_id_2 |-> j[1].case_id_2,
     similarity_note |-> j[1].similarity_note,
     case1_title |-> j[2].title, case2_title |-> j[3].title]

\* the sequences of rows get_all_case_links may return
get_all_case_links(project_id) ==
    LET rows == IF project_id = None
                  THEN JoinEndpoints
                  ELSE {j \in JoinEndpoints : LinkInProject(j[1], project_id)}
    IN {[i \in DOMAIN f |-> LinkWithTitles(f[i])] : f \in Orderings(rows, AnyOrder)}

\* WHERE c1.crime_scene_lat IS NOT NULL AND c1.crime_scene_lon IS NOT NULL
\*   AND c2.crime_scene_lat IS NOT NULL AND c2.crime_scene_lon IS NOT NULL
FirstHasCoordinates(j) == HasCoordinates(j[2])
BothHaveCoordinates(j) == HasCoordinates(j[2]) /\ HasCoordinates(j[3])

\* SELECT cl.similarity_note, c1.id AS c1_id, ..., c2.crime_scene_lon AS c2_lon
PairWithCoordinates(j) ==
    [similarity_note |-> j[1].similarity_note,
     c1_id |-> j[2].id, c1_title |-> j[2].title,
     c1_lat |-> j[2].crime_scene_lat, c1_lon |-> j[2].crime_scene_lon,
     c2_id |-> j[3].id, c2_title |-> j[3].title,
     c2_lat |-> j[3].crime_scene_lat, c2_lon |-> j[3].crime_scene_lon]

\* the sequences of rows get_linked_pairs_with_coordinates may return (the
\* query has no ORDER BY)
get_linked_pairs_with_coordinates(project_id) ==
    LET base == {j \in JoinEndpoints : BothHaveCoordinates(j)}
        rows == IF project_id = None
                  THEN base
                  ELSE {j \in base : LinkInProject(j[1], project_id)}
    IN {[i \in DOMAIN f |-> PairWithCoordinates(f[i])] : f \in Orderings(rows, AnyOrder)}

\* cases with or without a crime scene, their links, and one project
NextScope ==
    \/ \E a \in SceneCase : add_case(a)
    \/ \E c \in CaseIds : delete_case(c)
    \/ \E a, b \in CaseIds : link_cases(a, b, "same MO")
    \/ \E n \in {"Alpha"} : add_project(n)
    \/ \E p \in ProjectIds, c \in CaseIds : assign_case_to_project(p, c)
    \/ \E p \in ProjectIds, c \in CaseIds : unassign_case_from_project(p, c)

SpecScope == Init /\ [][NextScope]_vars

\* C13: get_all_case_links(p) lists exactly the case links whose two
\* endpoints both have a membership row in project p now, each once: a link
\* with one endpoint in p is not listed, nor is a link one of whose endpoints
\* has been unassigned from p.
LinksListed(q) == {q[i].id : i \in DOMAIN q}

ScopedLinksExact ==
    \A p \in ProjectIds :
        /\ get_all_case_links(p) # {}
        /\ \A q \in get_all_case_links(p) :
              /\ LinksListed(q) = {cl.id : cl \in {x \in case_links :
                                        /\ Members(p, x.case_id_1) # {}
                                        /\ Members(p, x.case_id_2) # {}}}
              /\ Len(q) = Cardinality(LinksListed(q))

\* an endpoint of a link has been unassigned from the project the other
\* endpoint still belongs to
EndpointUnassigned ==
    /\ last.op = "unassign_case_from_project"
    /\ \E cl \in case_links :
          /\ last.args[2] \in {cl.case_id_1, cl.case_id_2}
          /\ \E c \in {cl.case_id_1, cl.case_id_2} :
                c # last.args[2] /\ Members(last.args[1], c) # {}
          /\ Members(last.args[1], last.args[2]) = {}

\* C14: get_linked_pairs_with_coordinates(p?) returns one row per case link
\* both of whose endpoint cases have crime_scene_lat and crime_scene_lon
\* non-null and, when p is given, both of whose endpoints are members of p;
\* no other row.
MappableLinks(p) ==
    {cl \in case_links :
        /\ \A c \in cases : c.id \in {cl.case_id_1, cl.case_id_2}
              => c.crime_scene_lat # NULL /\ c.crime_scene_lon # NULL
        /\ p # None => Members(p, cl.case_id_1) # {} /\ Members(p, cl.case_id_2) # {}}

RowOfLink(cl) ==
    LET c1 == CHOOSE c \in cases : c.id = cl.case_id_1
        c2 == CHOOSE c \in cases : c.id = cl.case_id_2
    IN [similarity_note |-> cl.similarity_note,
        c1_id |-> c1.id, c1_title |-> c1.title,
        c1_lat |-> c1.crime_scene_lat, c1_lon |-> c1.crime_scene_lon,
        c2_id |-> c2.id, c2_title |-> c2.title,
        c2_lat |-> c2.crime_scene_lat, c2_lon |-> c2.crime_scene_lon]

MappedPairsExact ==
    \A p \in Scopes :
        /\ get_linked_pairs_with_coordinates(p) # {}
        /\ \A q \in get_linked_pairs_with_coordinates(p) :
              /\ Len(q) = Cardinality(MappableLinks(p))
              /\ \A i \in DOMAIN q : \E cl \in MappableLinks(p) : q[i] = RowOfLink(cl)
              /\ \A cl \in MappableLinks(p) :
                    Occurrences(q, RowOfLink(cl)) =
                       Cardinality({x \in MappableLinks(p) : RowOfLink(x) = RowOfLink(cl)})

\* two links between two cases with coordinates, one of which is a member of
\* a project and the other is not
TwoMappedLinks ==
    /\ Cardinality(MappableLinks(None)) = 2
    /\ \E p \in Ids(projects), cl \in case_links :
          /\ Members(p, cl.case_id_1) # {}
          /\ Members(p, cl.case_id_2) = {}

----------------------------------------------------------------------------
(* Cases with their association rows, in two projects *)

\* the association rows other than memberships
CaseRows ==
    Cardinality(case_crime_types) + Cardinality(case_tags)
      + Cardinality(case_links) + Cardinality(timeline_events)

NextFrame ==
    \/ \E a \in PlainCase : add_case(a)
    \/ CaseRows < MaxAssoc /\ \E c \in CaseIds : set_case_crime_types(c, <<"Homicide">>)
    \/ CaseRows < MaxAssoc /\ \E c \in CaseIds : set_case_tags(c, <<"Indoor">>)
    \/ CaseRows < MaxAssoc /\ \E a, b \in CaseIds : link_cases(a, b, "same MO")
    \/ CaseRows < MaxAssoc /\ \E c \in CaseIds : add_timeline_event(c, 1, "Sighting")
    \/ \E n \in ProjectNames : add_project(n)
    \/ \E p \in ProjectIds, c \in CaseIds : assign_case_to_project(p, c)
    \/ \E p \in ProjectIds : delete_project(p)

SpecFrame == InitStore /\ [][NextFrame]_vars

\* C15: a delete_project(p) step removes the row of project p and the
\* membership rows of p, and nothing else: every case, member of p or not,
\* is still there with the same attributes, crime types, tags, links and
\* timeline events, and the membership rows of other projects are the same.
DeleteProjectFrame(p) ==
    /\ projects' = {r \in projects : r.id # p}
    /\ project_cases' = {r \in project_cases : r.project_id # p}
    /\ \A r \in project_cases : r.project_id = p =>
          \E c \in cases' : c.id = r.case_id /\ c \in cases
    /\ cases' = cases
    /\ case_crime_types' = case_crime_types
    /\ case_tags' = case_tags
    /\ case_links' = case_links
    /\ suspect_case_links' = suspect_case_links
    /\ timeline_events' = timeline_events

DeleteProjectKeepsCases ==
    [][\A p \in ProjectIds : delete_project(p) => DeleteProjectFrame(p)]_vars

\* project 1 has been deleted with its membership (row 1 is gone, and only
\* delete_project removes a membership here); project 2 keeps its member,
\* and the cases keep their rows
ProjectDeletedCasesKept ==
    /\ Ids(projects) = {2}
    /\ Ids(project_cases) = {2}
    /\ Cardinality(cases) = 2
    /\ case_crime_types # {}
    /\ timeline_events # {}

----------------------------------------------------------------------------
(* Suspects with their history and links *)

\* ORDER BY date_of_crime DESC NULLS LAST, created_at DESC: entries with a
\* date before entries without one (the model has one date; created_at is
\* not kept, so entries that tie on the date come in any order)
ByCrimeDateDesc(r1, r2) == r1.date_of_crime # NULL \/ r2.date_of_crime = NULL

\* the sequences of rows get_suspect_crime_history may return
get_suspect_crime_history(suspect_id) ==
    Orderings({r \in suspect_crime_history : r.suspect_id = suspect_id}, ByCrimeDateDesc)

\* FROM suspect_case_links scl JOIN suspects s ON scl.suspect_id = s.id
\* WHERE scl.case_id = ?
JoinSuspects(case_id) ==
    {j \in suspect_case_links \X suspects :
        j[1].suspect_id = j[2].id /\ j[1].case_id = case_id}

\* SELECT scl.*, s.name AS suspect_name
LinkWithName(j) ==
    [id |-> j[1].id, suspect_id |-> j[1].suspect_id, case_id |-> j[1].case_id,
     connection_type |-> j[1].connection_type, suspect_name |-> j[2].name]

\* the sequences of rows get_suspect_links_for_case may return
get_suspect_links_for_case(case_id) ==
    {[i \in DOMAIN f |-> LinkWithName(f[i])] : f \in Orderings(JoinSuspects(case_id), AnyOrder)}

CrimeDates == {NULL, "2020-01-01"}

\* the ids returned so far by the two operations that write rows of a suspect
InitHistory ==
    /\ cases = {}
    /\ case_crime_types = {}
    /\ case_tags = {}
    /\ suspects = {}
    /\ suspect_crime_history = {}
    /\ suspect_case_links = {}
    /\ case_links = {}
    /\ timeline_events = {}
    /\ projects = {}
    /\ project_cases = {}
    /\ columns = LEGACY_COLS \cup NEW_COLS
    /\ last = Outcome("init_db", <<>>, "ok", 0)
    /\ issued = [op \in {"add_suspect_crime_history", "link_suspect_to_case"} |-> 0]
    /\ session_state = <<>>

NextHistory ==
    \/ \E a \in PlainCase : add_case(a)
    \/ \E n \in {"J. Smith"} : add_suspect(n)
    \/ \E s \in SuspectIds, d \in CrimeDates :
          add_suspect_crime_history(s, "Assault", d, "Suspected")
    \/ \E s \in SuspectIds, c \in CaseIds : link_suspect_to_case(s, c, "DNA Evidence")
    \/ \E s \in SuspectIds : delete_suspect(s)

SpecHistory == InitHistory /\ [][NextHistory]_vars

\* C16: a delete_suspect(s) step removes suspect s, every crime-history
\* entry of s and every suspect-case link of s: afterwards
\* get_suspect_crime_history(s) is empty, no get_suspect_links_for_case
\* result has a row of s, and every case s was linked to is still there.
SuspectGone(s) ==
    /\ s \notin Ids(suspects)
    /\ \A r \in suspect_crime_history : r.suspect_id # s
    /\ \A r \in suspect_case_links : r.suspect_id # s
    /\ get_suspect_crime_history(s) = {<<>>}
    /\ \A c \in CaseIds : \A q \in get_suspect_links_for_case(c) :
          \A i \in DOMAIN q : q[i].suspect_id # s

DeleteSuspectCascades ==
    [][\A s \in SuspectIds : delete_suspect(s) =>
          /\ SuspectGone(s)'
          /\ \A r \in suspect_case_links : r.suspect_id = s =>
                \E c \in cases' : c.id = r.case_id
          /\ cases' = cases]_vars

\* the suspect was deleted after history entries and links had been written
\* for it, and a case is left
SuspectDeletedWithRows ==
    /\ last.op = "delete_suspect"
    /\ issued["add_suspect_crime_history"] >= 1
    /\ issued["link_suspect_to_case"] >= 1
    /\ suspects = {}
    /\ suspect_crime_history = {}
    /\ suspect_case_links = {}
    /\ cases # {}

----------------------------------------------------------------------------
(* Renaming projects *)

\* UPDATE projects SET k = ? ... WHERE id = ?; name is NOT NULL UNIQUE
update_project(project_id, fields) ==
    LET args == <<project_id, fields>>
        new  == {ApplyFields(r, fields) : r \in {x \in projects : x.id = project_id}}
    IN IF DOMAIN fields = {}
         THEN /\ Return("update_project", args, "ok", 0)
              /\ UNCHANGED <<tables, issued>>
       ELSE IF \E r \in new : r.name = NULL
         THEN Raise("update_project", args, "NOT NULL")
       ELSE IF \E r \in new : ~ProjectsUnique(r, projects)
         THEN Raise("update_project", args, "UNIQUE")
       ELSE /\ projects' = {r \in projects : r.id # project_id} \cup new
            /\ Return("update_project", args, "ok", 0)
            /\ UNCHANGED <<cases, case_crime_types, case_tags, suspects,
                           suspect_crime_history, suspect_case_links, case_links,
                           timeline_events, project_cases, issued>>

\* the names typed into the project forms
NewNames == ProjectNames \cup {"Gamma"}

ProjectFields == UNION {[D -> NewNames] : D \in SUBSET {"name"}}

NextNames ==
    \/ \E n \in NewNames : add_project(n)
    \/ \E p \in ProjectIds, f \in ProjectFields : update_project(p, f)
    \/ \E p \in ProjectIds : delete_project(p)

SpecNames == Init /\ [][NextNames]_vars

\* C17: no two projects have the same name; add_project with a name in use,
\* and update_project renaming a project to the name of another project,
\* raise UNIQUE and leave the projects as they were.
NameInUse(name, but) == \E r \in projects : r.name = name /\ r.id # but

ProjectNamesUnique ==
    [][/\ \A r1, r2 \in projects' : r1.name = r2.name => r1.id = r2.id
       /\ (last'.op = "add_project" /\ NameInUse(last'.args[1], None))
             => last'.status = "UNIQUE" /\ projects' = projects
       /\ (/\ last'.op = "update_project"
           /\ last'.args[1] \in Ids(projects)
           /\ "name" \in DOMAIN last'.args[2]
           /\ NameInUse(last'.args[2]["name"], last'.args[1]))
             => last'.status = "UNIQUE" /\ projects' = projects]_vars

\* a rename to the name of the other project has been refused
RenameRefused ==
    /\ last.op = "update_project"
    /\ last.status = "UNIQUE"
    /\ Cardinality(projects) = 2
    /\ \E r \in projects : r.id # last.args[1] /\ r.name = last.args[2]["name"]

----------------------------------------------------------------------------
(* Editing cases *)

\* the keyword arguments given to update_case: a status (None breaks NOT
\* NULL), a crime-scene latitude, both, or none
UpdateFields ==
    {f \in UNION {[D -> {NULL, "Solved", "54.0"}] : D \in SUBSET {"status", "crime_scene_lat"}} :
        /\ "status" \in DOMAIN f => f["status"] \in {NULL, "Solved"}
        /\ "crime_scene_lat" \in DOMAIN f => f["crime_scene_lat"] \in Coords}

NextUpdate ==
    \/ \E a \in PlainCase : add_case(a)
    \/ \E c \in CaseIds, f \in UpdateFields : update_case(c, f)
    \/ \E c \in CaseIds : set_case_crime_types(c, <<"Homicide">>)
    \/ \E c \in CaseIds : delete_case(c)

SpecUpdate == Init /\ [][NextUpdate]_vars

\* C18: an update_case(id, attrs) step changes, on the case with that id,
\* the attributes named in attrs and no other; every other case and every
\* association row is as before; with no attributes, or with an id that
\* matches no case, every table is as before.
OtherTables ==
    <<case_crime_types, case_tags, suspects, suspect_crime_history,
      suspect_case_links, case_links, timeline_events, projects, project_cases>>

UpdateCaseFrame(id, attrs) ==
    /\ OtherTables' = OtherTables
    /\ Ids(cases') = Ids(cases)
    /\ \A r \in cases : r.id # id => r \in cases'
    /\ \A r \in cases, n \in cases' :
          (r.id = id /\ n.id = id) =>
              /\ \A k \in DOMAIN r \ DOMAIN attrs : n[k] = r[k]
              /\ last'.status = "ok" => \A k \in DOMAIN attrs : n[k] = attrs[k]
    /\ (attrs = <<>> \/ id \notin Ids(cases)) => cases' = cases

UpdateCaseChangesNamedOnly ==
    [][last'.op = "update_case" => UpdateCaseFrame(last'.args[1], last'.args[2])]_vars

\* one attribute of one case was updated: the case has the new latitude and
\* its old status, another case and a crime-type row are in the store
OneAttributeUpdated ==
    /\ last.op = "update_case"
    /\ last.status = "ok"
    /\ DOMAIN last.args[2] = {"crime_scene_lat"}
    /\ \E r, o \in cases :
          /\ r.id = last.args[1] /\ o.id # r.id
          /\ r.crime_scene_lat = "54.0" /\ r.status = "Solved"
          /\ o.crime_scene_lat = NULL
    /\ \E x \in case_crime_types : x.case_id = last.args[1]

----------------------------------------------------------------------------
(* Lookups by id *)

\* SELECT * FROM suspects WHERE id = ?; dict(row) if row else None
get_suspect(suspect_id) ==
    IF \E r \in suspects : r.id = suspect_id
      THEN CHOOSE r \in suspects : r.id = suspect_id
      ELSE [id |-> None]

\* SELECT * FROM projects WHERE id = ?; dict(row) if row else None
get_project(project_id) ==
    IF \E r \in projects : r.id = project_id
      THEN CHOOSE r \in projects : r.id = project_id
      ELSE [id |-> None]

\* a page calls a lookup: the call returns the row found (recorded by its
\* id) or None, and writes nothing
Lookup(op, id, row) ==
    /\ Return(op, <<id>>, "ok", row.id)
    /\ UNCHANGED <<tables, issued>>

LookupOps == {"get_case", "get_suspect", "get_project"}

NextLookup ==
    \/ \E a \in PlainCase : add_case(a)
    \/ \E c \in CaseIds : delete_case(c)
    \/ \E n \in {"J. Smith"} : add_suspect(n)
    \/ \E s \in SuspectIds : delete_suspect(s)
    \/ \E n \in {"Alpha"} : add_project(n)
    \/ \E p \in ProjectIds : delete_project(p)
    \/ \E c \in CaseIds : Lookup("get_case", c, get_case(c))
    \/ \E s \in SuspectIds : Lookup("get_suspect", s, get_suspect(s))
    \/ \E p \in ProjectIds : Lookup("get_project", p, get_project(p))

SpecLookup == Init /\ [][NextLookup]_vars

\* C19: get_case, get_suspect and get_project called with an id that has no
\* row (never given out, or deleted since) return None without raising, and
\* no lookup writes to a table.
TableOf(op) ==
    IF op = "get_case" THEN cases
    ELSE IF op = "get_suspect" THEN suspects
    ELSE projects

LookupOfAbsentReturnsNone ==
    [][last'.op \in LookupOps =>
          /\ tables' = tables
          /\ last'.args[1] \notin Ids(TableOf(last'.op)) =>
                last'.status = "ok" /\ last'.id = None]_vars

\* case 1 was looked up after it had been deleted while case 2 is there; the
\* suspect and the project exist
DeletedCaseLookedUp ==
    /\ last.op = "get_case"
    /\ last.args[1] = 1
    /\ last.id = None
    /\ Ids(cases) = {2}
    /\ suspects # {}
    /\ projects # {}

----------------------------------------------------------------------------
(* A legacy store, migrated at every start of the app, and edited *)

\* what the case form writes for the crime scene: the location cleared, or
\* a location picked on the map
SceneFields ==
    {[crime_scene_address |-> NULL, crime_scene_lat |-> NULL, crime_scene_lon |-> NULL],
     [crime_scene_address |-> "Elm St", crime_scene_lat |-> "59.3",
      crime_scene_lon |-> "18.0"]}

NextBackfill ==
    \/ migrate_db
    \/ Migrated /\ \E c \in Ids(cases), f \in SceneFields : update_case(c, f)

SpecBackfill == InitMig /\ [][NextBackfill]_vars

\* C20: a migrate_db run on a store that has been migrated before leaves
\* crime_scene_address, crime_scene_lat and crime_scene_lon of every case as
\* they are.  (In such a store the crime-scene fields of every case with a
\* legacy location have been written: by the backfill of the first run, and
\* perhaps by update_case since, which may have cleared them.)
SceneOf(r) == <<r.id, r.crime_scene_address, r.crime_scene_lat, r.crime_scene_lon>>

BackfillOnlyOnce ==
    [][(Migrated /\ migrate_db) => {SceneOf(r) : r \in cases'} = {SceneOf(r) : r \in cases}]_vars

----------------------------------------------------------------------------
(* Migration of the legacy crime type and of the retired statuses *)

\* C21: a migrate_db step gives every case whose crime_type column held a
\* real type T the association (case, T) and the sentinel in the column; no
\* column is set to the sentinel without the association being there
\* afterwards; and for a case that already has the sentinel the step inserts
\* no association.
TypesOf(T, case_id) == {x \in T : x.case_id = case_id}

StatusRows(id) ==
    {r \in [id : {id}, title : RETIRED_STATUSES \cup CASE_STATUSES,
            crime_type : {"Homicide"}, date_occurred : {1},
            status : RETIRED_STATUSES \cup CASE_STATUSES,
            address : {"Main St"}, latitude : Coords, longitude : Coords,
            crime_scene_address : {NULL}, crime_scene_lat : {NULL},
            crime_scene_lon : {NULL}] :
        /\ r.title = r.status
        /\ (r.latitude = NULL) <=> (r.longitude = NULL)}

StatusTables ==
    UNION {{{f[i] : i \in 1..n} : f \in {g \in [1..n -> UNION {StatusRows(i) : i \in 1..n}] :
                                            \A i \in 1..n : g[i].id = i}} :
           n \in 0..MaxLegacy}

InitStatus ==
    /\ cases \in StatusTables
    /\ columns = IF cases = {} THEN LEGACY_COLS \cup NEW_COLS ELSE LEGACY_COLS
    /\ case_crime_types = {}
    /\ case_tags = {}
    /\ suspects = {}
    /\ suspect_crime_history = {}
    /\ suspect_case_links = {}
    /\ case_links = {}
    /\ timeline_events = {}
    /\ projects = {}
    /\ project_cases = {}
    /\ last = Outcome("init_db", <<>>, "ok", 0)
    /\ issued = <<>>
    /\ session_state = <<>>

NextStatus ==
    \/ migrate_db
    \/ Migrated /\ \E c \in Ids(cases) : delete_case(c)

SpecStatus == InitStatus /\ [][NextStatus]_vars

\* C22: after a migrate_db step no case has a retired status: a case that
\* had 'Open' or 'Linked' has 'Active', a case that had 'Closed' has
\* 'Solved', and every other case has the status it had.
StatusAfterMigration(s) ==
    IF s \in {"Open", "Linked"} THEN "Active"
    ELSE IF s = "Closed" THEN "Solved"
    ELSE s

RetiredStatusesReplaced ==
    [][migrate_db =>
          /\ \A n \in cases' : n.status \notin RETIRED_STATUSES
          /\ Ids(cases') = Ids(cases)
          /\ \A r \in cases : \A n \in cases' :
                n.id = r.id => n.status = StatusAfterMigration(r.status)]_vars

\* migrate_db has run on a store that held an 'Open' case and a 'Closed'
\* one: they now read 'Active' and 'Solved'
RetiredStatusesGone ==
    /\ last.op = "migrate_db"
    /\ \E r1, r2 \in cases :
          /\ r1.title = "Open" /\ r1.status = "Active"
          /\ r2.title = "Closed" /\ r2.status = "Solved"

-----------------------------------------------------------------------------
(* The replace-all writes and delete_case, statement by statement.  One
   connection executes DELETE, then one INSERT OR IGNORE per list element,
   then commit(); sqlite3 opens a transaction before the first of these
   statements, and `finally: conn.close()' without a commit rolls it back.
   The open transaction is the record in `last': pc is the index of the next
   list element, work the table as the writing connection sees it, before the
   committed table when the call began. *)

Open(op, args, pc, work, before) ==
    [op |-> op, args |-> args, status |-> "open", id |-> 0,
     pc |-> pc, work |-> work, before |-> before]

\* no connection holds the write lock
Idle == last.status # "open"

\* a value cur.execute cannot bind as a parameter (neither str, int, float,
\* bytes nor None): the statement raises before it touches the table
Unbindable == "<object>"
Bindable(v) == v # Unbindable

\* what the other connections read of a table while the transaction is open:
\* the committed table, not the writer's working copy
VisibleUncommitted(committed, work) == work
Visible(committed, work) == committed

\* the exception leaves the `with'-less try block: close() without commit()
Rollback(status) ==
    /\ last' = Outcome(last.op, last.args, status, 0)
    /\ UNCHANGED <<tables, issued, session_state>>

\* DELETE FROM case_crime_types WHERE case_id = ?
begin_set_case_crime_types(case_id, crime_types) ==
    LET work == DeleteForCase(case_crime_types, case_id)
    IN /\ Idle
       /\ lastrowid(work) + Len(crime_types) <= MaxTypeRows + 1
       /\ last' = Open("set_case_crime_types", <<case_id, crime_types>>, 1,
                       work, case_crime_types)
       /\ case_crime_types' = Visible(case_crime_types, work)
       /\ UNCHANGED <<cases, case_tags, suspects, suspect_crime_history,
                      suspect_case_links, case_links, timeline_events,
                      projects, project_cases, columns, issued,
                      session_state>>

\* INSERT OR IGNORE INTO case_crime_types ... VALUES (case_id, ct, i)
insert_crime_type ==
    /\ last.op = "set_case_crime_types" /\ last.status = "open"
    /\ last.pc <= Len(last.args[2])
    /\ LET case_id == last.args[1]
           ct == last.args[2][last.pc]
           row == [id |-> lastrowid(last.work), case_id |-> case_id,
                   crime_type |-> ct, sort_order |-> last.pc - 1]
           work == IF CaseCrimeTypesUnique(row, last.work)
                     THEN last.work \cup {row} ELSE last.work
       IN IF ~Bindable(ct) THEN Rollback("ProgrammingError")
          ELSE IF CaseCrimeTypesUnique(row, last.work) /\ ~References(case_id, cases)
            THEN Rollback("FOREIGN KEY")
          ELSE /\ last' = [last EXCEPT !.pc = @ + 1, !.work = work]
               /\ case_crime_types' = Visible(case_crime_types, work)
               /\ UNCHANGED <<cases, case_tags, suspects, suspect_crime_history,
                              suspect_case_links, case_links, timeline_events,
                              projects, project_cases, columns, issued,
                      session_state>>

\* conn.commit()
commit_set_case_crime_types ==
    /\ last.op = "set_case_crime_types" /\ last.status = "open"
    /\ last.pc > Len(last.args[2])
    /\ case_crime_types' = last.work
    /\ last' = Outcome(last.op, last.args, "ok", 0)
    /\ UNCHANGED <<cases, case_tags, suspects, suspect_crime_history,
                   suspect_case_links, case_links, timeline_events,
                   projects, project_cases, columns, issued,
                      session_state>>

\* DELETE FROM case_tags WHERE case_id = ?
begin_set_case_tags(case_id, tags) ==
    LET work == DeleteForCase(case_tags, case_id)
    IN /\ Idle
       /\ lastrowid(work) + Len(tags) <= MaxTypeRows + 1
       /\ last' = Open("set_case_tags", <<case_id, tags>>, 1, work, case_tags)
       /\ case_tags' = Visible(case_tags, work)
       /\ UNCHANGED <<cases, case_crime_types, suspects, suspect_crime_history,
                      suspect_case_links, case_links, timeline_events,
                      projects, project_cases, columns, issued,
                      session_state>>

\* INSERT OR IGNORE INTO case_tags (case_id, tag) VALUES (?, ?)
insert_tag ==
    /\ last.op = "set_case_tags" /\ last.status = "open"
    /\ last.pc <= Len(last.args[2])
    /\ LET case_id == last.args[1]
           tag == last.args[2][last.pc]
           row == [id |-> lastrowid(last.work), case_id |-> case_id, tag |-> tag]
           work == IF CaseTagsUnique(row, last.work)
                     THEN last.work \cup {row} ELSE last.work
       IN IF ~Bindable(tag) THEN Rollback("ProgrammingError")
          ELSE IF CaseTagsUnique(row, last.work) /\ ~References(case_id, cases)
            THEN Rollback("FOREIGN KEY")
          ELSE /\ last' = [last EXCEPT !.pc = @ + 1, !.work = work]
               /\ case_tags' = Visible(case_tags, work)
               /\ UNCHANGED <<cases, case_crime_types, suspects, suspect_crime_history,
                              suspect_case_links, case_links, timeline_events,
                              projects, project_cases, columns, issued,
                      session_state>>

\* conn.commit()
commit_set_case_tags ==
    /\ last.op = "set_case_tags" /\ last.status = "open"
    /\ last.pc > Len(last.args[2])
    /\ case_tags' = last.work
    /\ last' = Outcome(last.op, last.args, "ok", 0)
    /\ UNCHANGED <<cases, case_crime_types, suspects, suspect_crime_history,
                   suspect_case_links, case_links, timeline_events,
                   projects, project_cases, columns, issued,
                      session_state>>

\* the lists the two writes are called with: plain, repeated, and with an
\* element that cannot be bound after the first insert
TypeLists == {<<"Assault">>, <<"Homicide", "Assault">>, <<"Assault", Unbindable>>}
TagLists  == {<<"Indoor">>, <<"Outdoor", Unbindable>>}

\* the other sessions write only while no transaction is open
NextTxn ==
    \/ Idle /\ \E a \in PlainCase : add_case(a)
    \/ Idle /\ \E c \in CaseIds : delete_case(c)
    \/ \E c \in CaseIds, L \in TypeLists : begin_set_case_crime_types(c, L)
    \/ insert_crime_type
    \/ commit_set_case_crime_types
    \/ \E c \in CaseIds, L \in TagLists : begin_set_case_tags(c, L)
    \/ insert_tag
    \/ commit_set_case_tags

SpecTxn == Init /\ [][NextTxn]_vars

\* the step in which an open replace-all write ends with an exception
WriteFails == last.status = "open" /\ last'.status \notin {"open", "ok"}

\* C23: a replace-all write that fails at any insert leaves the committed
\* association table exactly as it was when the call began: neither the
\* deletion of the old rows nor any new row is kept
FailedWriteKeepsRows ==
    [][WriteFails =>
         /\ last.op = "set_case_crime_types" => case_crime_types' = last.before
         /\ last.op = "set_case_tags" => case_tags' = last.before]_vars

\* a write on a case that had the type Homicide failed at its second insert,
\* after the delete and the insert of Assault had been executed
WriteFailedAfterInsert ==
    /\ last.op = "set_case_crime_types" /\ last.status = "ProgrammingError"
    /\ last.args[2] = <<"Assault", Unbindable>>
    /\ \E r \in case_crime_types :
          r.case_id = last.args[1] /\ r.crime_type = "Homicide"

-----------------------------------------------------------------------------
(* Tags of a case *)

NextTags ==
    \/ \E a \in PlainCase : add_case(a)
    \/ \E c \in CaseIds : delete_case(c)
    \/ \E c \in CaseIds, L \in Lists(CASE_TAGS) : set_case_tags(c, L)

SpecTags == Init /\ [][NextTags]_vars

\* the tags of a case in a table of tag rows
TagsOf(T, case_id) == {r.tag : r \in {x \in T : x.case_id = case_id}}

\* C24: set_case_tags(c, L) on an existing case c raises nothing and leaves c
\* with exactly the distinct elements of L as tags, one row each, whatever c
\* had before; the same call made again leaves the tags of every case, and
\* the list get_case_tags returns, as they were
TagsReplaced ==
    [][\A c \in CaseIds :
         (last'.op = "set_case_tags" /\ last'.args[1] = c /\ c \in Ids(cases)) =>
           LET L == last'.args[2]
           IN /\ last'.status = "ok"
              /\ TagsOf(case_tags', c) = Range(L)
              /\ Cardinality({r \in case_tags' : r.case_id = c})
                   = Cardinality(Range(L))
              /\ (last.op = "set_case_tags" /\ last.status = "ok"
                    /\ last.args = last'.args) =>
                      /\ \A k \in CaseIds : TagsOf(case_tags', k) = TagsOf(case_tags, k)
                      /\ get_case_tags(c)' = get_case_tags(c)
                      /\ cases' = cases /\ case_crime_types' = case_crime_types]_vars

\* a list naming Indoor twice has been written to an existing case, which
\* now has the two tags of the list
RepeatedTagWritten ==
    /\ last.op = "set_case_tags" /\ last.status = "ok"
    /\ last.args[1] \in Ids(cases)
    /\ last.args[2] = <<"Indoor", "Outdoor", "Indoor">>
    /\ TagsOf(case_tags, last.args[1]) = {"Indoor", "Outdoor"}

-----------------------------------------------------------------------------
(* delete_case between its DELETE statement and its commit *)

\* DELETE FROM cases WHERE id = ?: executed with its cascades inside the
\* connection's transaction, nothing of it is committed yet
begin_delete_case(case_id) ==
    /\ Idle
    /\ last' = Open("delete_case", <<case_id>>, 0, {}, {})
    /\ UNCHANGED <<tables, issued, session_state>>

\* conn.commit(): the deletion and its cascades become visible together
commit_delete_case ==
    /\ last.op = "delete_case" /\ last.status = "open"
    /\ delete_case(last.args[1])

NextDelete ==
    \/ Idle /\ \E a \in PlainCase : add_case(a)
    \/ Idle /\ Room /\ \E c \in CaseIds : set_case_crime_types(c, <<"Homicide">>)
    \/ Idle /\ Room /\ \E c \in CaseIds : set_case_tags(c, <<"Indoor">>)
    \/ Idle /\ \E n \in {"J. Smith"} : add_suspect(n)
    \/ Idle /\ Room /\ \E s \in SuspectIds, c \in CaseIds :
                          link_suspect_to_case(s, c, "DNA Evidence")
    \/ Idle /\ Room /\ \E a, b \in CaseIds : link_cases(a, b, "same MO")
    \/ Idle /\ Room /\ \E c \in CaseIds : add_timeline_event(c, 1, "Sighting")
    \/ Idle /\ \E n \in {"Alpha"} : add_project(n)
    \/ Idle /\ Room /\ \E p \in ProjectIds, c \in CaseIds : assign_case_to_project(p, c)
    \/ \E c \in CaseIds : begin_delete_case(c)
    \/ commit_delete_case

SpecDelete == Init /\ [][NextDelete]_vars

\* the association rows that reference a case
RowsOf(case_id) ==
    <<{r \in case_crime_types : r.case_id = case_id},
      {r \in case_tags : r.case_id = case_id},
      {r \in suspect_case_links : r.case_id = case_id},
      {r \in case_links : r.case_id_1 = case_id \/ r.case_id_2 = case_id},
      {r \in timeline_events : r.case_id = case_id},
      {r \in project_cases : r.case_id = case_id}>>

NoRowsOf(case_id) == RowsOf(case_id) = <<{}, {}, {}, {}, {}, {}>>

\* C25: at every step of delete_case(c), from its DELETE statement to its
\* commit, what another session reads is either the store as it was (case c
\* with all its association rows) or a store with neither c nor any
\* association row of c
DeleteCaseAtomic ==
    [][\A c \in CaseIds :
         (last'.op = "delete_case" /\ last'.args[1] = c) =>
            \/ tables' = tables
            \/ c \notin Ids(cases') /\ NoRowsOf(c)']_vars

\* the DELETE of a case that has a crime type and a link to another case has
\* been executed and is not yet committed
DeleteInFlight ==
    /\ last.op = "delete_case" /\ last.status = "open"
    /\ last.args[1] \in Ids(cases)
    /\ \E r \in case_crime_types : r.case_id = last.args[1]
    /\ \E r \in case_links : r.case_id_2 = last.args[1]

-----------------------------------------------------------------------------
(* The forms of the pages: src/pages/cases.py, timeline.py, suspects.py *)

\* datetime.date(y, m, d) raises ValueError unless 1 <= y <= 9999,
\* 1 <= m <= 12 and 1 <= d <= the number of days of month m in year y
IsLeap(y) == (y % 4 = 0 /\ y % 100 # 0) \/ y % 400 = 0

DaysInMonthAll31(y, m) == 31
DaysInMonth(y, m) ==
    IF m = 2 THEN (IF IsLeap(y) THEN 29 ELSE 28)
    ELSE IF m \in {4, 6, 9, 11} THEN 30
    ELSE 31

ValidDate(y, m, d) ==
    /\ y \in 1..9999
    /\ m \in 1..12
    /\ d \in 1..DaysInMonth(y, m)

\* the year, month and day entered in the three number inputs (each input
\* keeps its value within 1800..today, 1..12, 1..31)
DateInputs == {<<2024, 2, 29>>, <<2023, 2, 29>>, <<2023, 4, 31>>}

\* str(date): the text YYYY-MM-DD of the three numbers
IsoText(y, m, d) ==
    CASE <<y, m, d>> = <<2024, 2, 29>> -> "2024-02-29"
      [] <<y, m, d>> = <<2023, 2, 29>> -> "2023-02-29"
      [] <<y, m, d>> = <<2023, 4, 31>> -> "2023-04-31"

\* str.strip() on the titles entered
TitleInputs == {"", " ", "Roe File"}
Strip(s) == IF s = " " THEN "" ELSE s

\* st.session_state.get(key), st.session_state[key] = v, .pop(key, None)
SessionGet(key) == IF key \in DOMAIN session_state THEN session_state[key] ELSE None
SessionSet(S, key, v) == [k \in DOMAIN S \cup {key} |-> IF k = key THEN v ELSE S[k]]
SessionPop(S, keys) == [k \in DOMAIN S \ keys |-> S[k]]

\* editing_id = st.session_state.get("editing_case_id")
\* editing_case = get_case(editing_id) if editing_id else None
editing_id == SessionGet("editing_case_id")
editing_case == IF editing_id # None THEN get_case(editing_id) ELSE [id |-> None]
\* show_form = editing_case or st.session_state.get("show_case_form")
show_form == editing_case.id # None \/ "show_case_form" \in DOMAIN session_state

\* st.error(...): the handler shows a message and writes nothing
st_error(form, message) ==
    /\ last' = Outcome(form, <<>>, message, 0)
    /\ UNCHANGED <<tables, issued, session_state>>

\* the button "+ New Case" / "Cancel"
press_new_or_cancel ==
    /\ session_state' =
         IF show_form
           THEN SessionPop(session_state, {"editing_case_id", "show_case_form"})
           ELSE SessionSet(session_state, "show_case_form", TRUE)
    /\ last' = Outcome("new_or_cancel", <<>>, "ok", 0)
    /\ UNCHANGED <<tables, issued>>

\* the button "Edit" of a listed case
press_edit(c) ==
    /\ c \in Ids(cases)
    /\ session_state' =
         SessionPop(SessionSet(session_state, "editing_case_id", c), {"show_case_form"})
    /\ last' = Outcome("edit", <<c>>, "ok", 0)
    /\ UNCHANGED <<tables, issued>>

\* the button "Delete" of a listed case: delete_case(c["id"]); st.rerun()
press_delete(c) ==
    /\ c \in Ids(cases)
    /\ delete_case(c)

\* the button "Save Case" / "Update Case" of the open form
press_save(title, status, crime_types, tags, dy, dm, dd) ==
    /\ show_form
    /\ IF Strip(title) = "" THEN st_error("save_case", "Title is required.")
       ELSE IF crime_types = <<>>
         THEN st_error("save_case", "At least one crime type is required.")
       ELSE IF ~ValidDate(dy, dm, dd) THEN st_error("save_case", "Invalid date")
       ELSE LET editing == editing_case.id # None
                id == IF editing THEN editing_id ELSE lastrowid(cases)
                new == [id |-> id, title |-> Strip(title), crime_type |-> MIGRATED,
                        date_occurred |-> IsoText(dy, dm, dd), status |-> status,
                        address |-> NULL, latitude |-> NULL, longitude |-> NULL,
                        crime_scene_address |-> OrNone(""),
                        crime_scene_lat |-> NULL, crime_scene_lon |-> NULL]
                fields == [k \in {"title", "date_occurred", "status",
                                  "crime_scene_address"} |->
                             CASE k = "title" -> Strip(title)
                               [] k = "date_occurred" -> IsoText(dy, dm, dd)
                               [] k = "status" -> status
                               [] k = "crime_scene_address" ->
                                    IF editing_case.crime_scene_address = NULL
                                      THEN "" ELSE editing_case.crime_scene_address]
                T == InsertCrimeTypes(DeleteForCase(case_crime_types, id),
                                      id, crime_types, 1)
                G == InsertTags(DeleteForCase(case_tags, id), id, tags, 1)
            IN /\ id <= MaxCases
               /\ \A r \in T \cup G : r.id <= MaxTypeRows
               /\ cases' = IF editing
                             THEN {IF r.id = id THEN ApplyFields(r, fields) ELSE r :
                                     r \in cases}
                             ELSE cases \cup {new}
               /\ case_crime_types' = T
               /\ case_tags' = G
               /\ session_state' =
                    SessionPop(session_state,
                               IF editing THEN {"editing_case_id", "show_case_form"}
                               ELSE {"show_case_form"})
               /\ last' = Outcome("save_case",
                                  <<id, title, crime_types, IsoText(dy, dm, dd)>>,
                                  IF editing THEN "Case updated." ELSE "Case added.", id)
               /\ UNCHANGED <<suspects, suspect_crime_history, suspect_case_links,
                              case_links, timeline_events, projects, project_cases,
                              columns, issued>>

\* timeline.py, the button "Add Event" for the selected case, at 12:00
press_add_event(case_id, event_title, ev_y, ev_m, ev_d) ==
    /\ case_id \in Ids(cases)
    /\ IF Strip(event_title) = "" THEN st_error("add_event", "Event title is required.")
       ELSE IF ~ValidDate(ev_y, ev_m, ev_d) THEN st_error("add_event", "Invalid date")
       ELSE add_timeline_event(case_id, <<IsoText(ev_y, ev_m, ev_d), 12, 0>>,
                               Strip(event_title))

\* suspects.py, the button "Add Entry" of a suspect's criminal-history form
press_add_entry(suspect_id, h_unknown, hy, hm, hd) ==
    /\ suspect_id \in Ids(suspects)
    /\ IF ~h_unknown /\ ~ValidDate(hy, hm, hd) THEN st_error("add_entry", "Invalid date")
       ELSE add_suspect_crime_history(suspect_id, "Assault",
                                      IF h_unknown THEN NULL ELSE IsoText(hy, hm, hd),
                                      "Suspected")

\* most rows the forms add to timeline_events and suspect_crime_history
MaxForm == 1

\* the rows of timeline_events and suspect_crime_history
FormRows == Cardinality(timeline_events) + Cardinality(suspect_crime_history)

\* one browser session filling in the three forms
NextForms ==
    \/ press_new_or_cancel
    \/ \E c \in CaseIds : press_edit(c)
    \/ \E t \in TitleInputs, L \in {<<>>, <<"Assault">>}, d \in DateInputs :
          press_save(t, "Active", L, <<"Indoor">>, d[1], d[2], d[3])
    \/ FormRows < MaxForm /\ \E c \in CaseIds, t \in TitleInputs, d \in DateInputs :
          press_add_event(c, t, d[1], d[2], d[3])
    \/ FormRows < MaxForm /\ \E s \in SuspectIds, u \in BOOLEAN, d \in DateInputs :
          press_add_entry(s, u, d[1], d[2], d[3])
    \/ \E n \in {"J. Smith"} : add_suspect(n)

SpecForms == Init /\ [][NextForms]_vars

\* one browser session on the case page, and the cases the other sessions
\* add and delete
NextCasePage ==
    \/ press_new_or_cancel
    \/ \E c \in CaseIds : press_edit(c)
    \/ \E c \in CaseIds : press_delete(c)
    \/ \E s \in {"Active", "Solved"} :
          press_save("Roe File", s, <<"Assault">>, <<>>, 2024, 2, 29)
    \/ \E a \in CaseAttrs({"Doe File"}, {"2023-04-30"}, {"Active"}, {""}, {NULL}) :
          add_case(a)

SpecCasePage == Init /\ [][NextCasePage]_vars

\* the dates of DateInputs that are not on the calendar, as texts: 29
\* February of 2023, which is not a leap year, and the 31st of April, which
\* has 30 days
ImpossibleDates == {"2023-02-29", "2023-04-31"}

\* the messages the three forms show instead of writing
FormErrors == {"Title is required.", "At least one crime type is required.",
               "Invalid date", "Event title is required."}

\* C26: a submission that fails validation writes nothing to the store.  A
\* form that ends with an error message leaves every table as it was; the
\* case form reaches add_case / update_case / set_case_crime_types /
\* set_case_tags only with a non-blank title, at least one crime type and a
\* date on the calendar; the timeline form and the criminal-history form add
\* a row only with a date on the calendar
InvalidSubmissionWritesNothing ==
    [][/\ last'.status \in FormErrors => tables' = tables
       /\ (last'.op = "save_case" /\ last'.status \notin FormErrors) =>
            /\ last'.args[2] \notin {"", " "}
            /\ last'.args[3] # <<>>
            /\ last'.args[4] \notin ImpossibleDates
       /\ \A r \in timeline_events' \ timeline_events :
            r.event_timestamp[1] \notin ImpossibleDates
       /\ \A r \in suspect_crime_history' \ suspect_crime_history :
            r.date_of_crime \notin ImpossibleDates
       /\ \A r \in cases' \ cases :
            r.title # "" /\ r.date_occurred \notin ImpossibleDates
                         /\ last'.op = "save_case"]_vars

\* "Update Case" has been pressed on the form of an existing case with an
\* impossible date, and the form is still open on that case
InvalidDateRefused ==
    /\ last = Outcome("save_case", <<>>, "Invalid date", 0)
    /\ editing_case.id # None
    /\ case_crime_types # {}

-----------------------------------------------------------------------------
(* The primary crime type *)

\* the three operations in any order on a store init_db has prepared: the
\* tables exist, the legacy rows may not be migrated yet
NextPrimary ==
    \/ migrate_db
    \/ \E c \in Ids(cases), L \in {<<>>, <<"Assault">>, <<"Assault", "Homicide">>} :
          set_case_crime_types(c, L)
    \/ \E c \in Ids(cases) : delete_case(c)

SpecPrimary == InitMig /\ [][NextPrimary]_vars

\* C27 (as claimed): after any sequence of migrate_db, set_case_crime_types
\* and delete_case, every case has at most one association with sort_order 0,
\* get_cases_with_coordinates lists each case with coordinates exactly once,
\* and the primary crime type it reports is the one get_primary_crime_type
\* returns (NULL when the case has no crime type)
OnePrimaryCrimeType ==
    /\ \A c \in cases :
          Cardinality({r \in case_crime_types :
                          r.case_id = c.id /\ r.sort_order = 0}) <= 1
    /\ \A q \in get_cases_with_coordinates(None) :
          /\ \A c \in {x \in cases : HasCoordinates(x)} :
                Cardinality({i \in DOMAIN q : q[i].case = c}) = 1
          /\ \A i \in DOMAIN q :
                get_primary_crime_type(q[i].case.id) = {q[i].primary_crime_type}

-----------------------------------------------------------------------------
(* What delete_case leaves alone *)

\* the rows of a table that do not reference the case through the column
Keeps(T, col, case_id) == {r \in T : r[col] # case_id}

\* C28: delete_case(c) removes only case c and the association rows that
\* reference c: the suspects, the projects, the criminal-history entries and
\* the other cases are unchanged, and each association table loses exactly
\* its rows that reference c
DeleteCaseRemovesOnlyItsRows ==
    [][\A c \in CaseIds :
         delete_case(c) =>
           /\ suspects' = suspects
           /\ suspect_crime_history' = suspect_crime_history
           /\ projects' = projects
           /\ cases' = {r \in cases : r.id # c}
           /\ case_crime_types' = Keeps(case_crime_types, "case_id", c)
           /\ case_tags' = Keeps(case_tags, "case_id", c)
           /\ suspect_case_links' = Keeps(suspect_case_links, "case_id", c)
           /\ timeline_events' = Keeps(timeline_events, "case_id", c)
           /\ project_cases' = Keeps(project_cases, "case_id", c)
           /\ case_links' = Keeps(Keeps(case_links, "case_id_1", c), "case_id_2", c)]_vars

\* case 1 has been deleted; case 2 and its tag, a suspect with a
\* criminal-history entry and a project are still there
OtherRowsKept ==
    /\ Ids(cases) = {2}
    /\ \E r \in case_tags : r.case_id = 2
    /\ suspects # {} /\ suspect_crime_history # {}
    /\ projects # {}

-----------------------------------------------------------------------------
(* Reading the crime types of a case while they are being replaced *)

NextRead ==
    \/ Idle /\ \E a \in SceneCase : add_case(a)
    \/ Idle /\ \E c \in CaseIds : delete_case(c)
    \/ \E c \in CaseIds, L \in TypeLists : begin_set_case_crime_types(c, L)
    \/ insert_crime_type
    \/ commit_set_case_crime_types

SpecRead == Init /\ [][NextRead]_vars

\* C29: while set_case_crime_types(c, L) with a non-empty L is between its
\* DELETE and its commit, get_case_crime_types(c), get_primary_crime_type(c)
\* and get_cases_with_coordinates called from another session return what
\* they returned before the call (the complete old list), also when the call
\* ends with an exception; from the commit on they return the complete new
\* list: L without its repetitions, L[1] as the primary type
ReadersSeeOldOrNew ==
    [][\A c \in CaseIds :
         (last'.op = "set_case_crime_types" /\ last'.args[1] = c) =>
            IF last'.status = "ok"
              THEN /\ get_case_crime_types(c)' = {FirstOccurrences(last'.args[2])}
                   /\ get_primary_crime_type(c)' = {last'.args[2][1]}
                   /\ \A q \in get_cases_with_coordinates(None)' :
                        \A i \in DOMAIN q :
                          q[i].case.id = c => q[i].primary_crime_type = last'.args[2][1]
              ELSE /\ get_case_crime_types(c)' = get_case_crime_types(c)
                   /\ get_primary_crime_type(c)' = get_primary_crime_type(c)
                   /\ get_cases_with_coordinates(None)'
                        = get_cases_with_coordinates(None)]_vars

\* the types of a case with coordinates are being replaced: the writer has
\* deleted Assault and inserted Homicide, the other sessions still read
\* Assault
WriteInFlight ==
    /\ last.op = "set_case_crime_types" /\ last.status = "open"
    /\ last.args[2] = <<"Homicide", "Assault">> /\ last.pc = 2
    /\ \E r \in cases : r.id = last.args[1] /\ HasCoordinates(r)
    /\ {r.crime_type : r \in TypesOf(last.work, last.args[1])} = {"Homicide"}
    /\ get_case_crime_types(last.args[1]) = {<<"Assault">>}
    /\ get_primary_crime_type(last.args[1]) = {"Assault"}

-----------------------------------------------------------------------------
(* The case being edited *)

\* C30 (as claimed): the editing-case identifier of the session, whenever it
\* resolves to a case, resolves to the case on which the user pressed Edit:
\* it comes to resolve to a case only by the user's pressing Edit, so the
\* form never opens in edit mode for, and "Update Case" never writes to, a
\* case the user did not select
EditingCaseIsSelected ==
    [][(editing_case.id = None /\ editing_case'.id # None) => last'.op = "edit"]_vars

====
